---------------------------- MODULE Spec2Model ----------------------------
(***************************************************************************)
(* Secure multi-target execution subsystem of openclaw_pro:                *)
(*   - SecurityPolicy (tools/security.py): path confinement and the        *)
(*     dangerous-command deny list;                                        *)
(*   - the executors (tools/executors/local.py, ssh.py, winrm.py).         *)
(*                                                                         *)
(* Text is modelled as a sequence of one-character strings, so that        *)
(* prefix tests, substring tests, glob matching, split and join are        *)
(* computed character by character, as the Python code computes them.      *)
(***************************************************************************)
EXTENDS Integers, Sequences, FiniteSets, TLC

VARIABLES
    fs,          \* the local filesystem: canonical path (parts) -> node
    pathIn,      \* SpecPath: the arguments of a SecurityPolicy path call
    pathOut,     \* SpecPath: what the call returned or raised
    cmdIn,       \* SpecCmd: the command text handed to is_dangerous_command
    cmdOut,      \* SpecCmd: the verdicts of is_dangerous_command
    ex,          \* Spec: the fields of one executor instance
    last,        \* Spec: the last call on the executor, and what it did
    ghost,       \* Spec: history: disconnect() was called, write_file calls
    mgr,         \* SpecManager: the ConnectionManager and where initialize() is
    loop         \* SpecLoop: the event loop, its tasks and the transport

polVars  == <<pathIn, pathOut, cmdIn, cmdOut>>
execVars == <<ex, last, ghost>>
sysVars  == <<mgr, loop>>
vars     == <<fs, pathIn, pathOut, cmdIn, cmdOut, ex, last, ghost, mgr, loop>>

---------------------------------------------------------------------------
(* Text helpers: Python str operations on sequences of characters.         *)

UpperLetters ==
    <<"A","B","C","D","E","F","G","H","I","J","K","L","M",
      "N","O","P","Q","R","S","T","U","V","W","X","Y","Z">>

LowerLetters ==
    <<"a","b","c","d","e","f","g","h","i","j","k","l","m",
      "n","o","p","q","r","s","t","u","v","w","x","y","z">>

\* str.lower() and str.upper() on the letters
ToLower ==
    [c \in {UpperLetters[i] : i \in 1..Len(UpperLetters)} |->
        LowerLetters[CHOOSE i \in 1..Len(UpperLetters) : UpperLetters[i] = c]]

ToUpper ==
    [c \in {LowerLetters[i] : i \in 1..Len(LowerLetters)} |->
        UpperLetters[CHOOSE i \in 1..Len(LowerLetters) : LowerLetters[i] = c]]

\* str.lower() on one character
LowerChar(c) == IF c \in DOMAIN ToLower THEN ToLower[c] ELSE c

\* str.upper() on one character
UpperChar(c) == IF c \in DOMAIN ToUpper THEN ToUpper[c] ELSE c

\* str.lower()
lower(s) == <<>> \o [i \in 1..Len(s) |-> LowerChar(s[i])]

\* str.upper()
upper(s) == <<>> \o [i \in 1..Len(s) |-> UpperChar(s[i])]

\* s.replace(a, b) for single characters a, b
replace(s, a, b) == <<>> \o [i \in 1..Len(s) |-> IF s[i] = a THEN b ELSE s[i]]

\* s.startswith(p)
startswith(s, p) == Len(p) <= Len(s) /\ SubSeq(s, 1, Len(p)) = p

\* `p in s` for Python strings: p occurs in s as a contiguous substring
contains(s, p) ==
    \E i \in 0..(Len(s) - Len(p)) : \A j \in 1..Len(p) : s[i + j] = p[j]

\* s.split(sep): the list of fields between occurrences of the character sep
RECURSIVE split(_, _)
split(s, sep) ==
    IF \A i \in 1..Len(s) : s[i] # sep
    THEN <<s>>
    ELSE LET k == CHOOSE i \in 1..Len(s) :
                      s[i] = sep /\ \A j \in 1..(i - 1) : s[j] # sep
         IN  <<SubSeq(s, 1, k - 1)>> \o split(SubSeq(s, k + 1, Len(s)), sep)

\* sep.join(fields), sep a text
RECURSIVE join(_, _)
join(fields, sep) ==
    IF fields = <<>> THEN <<>>
    ELSE IF Len(fields) = 1 THEN fields[1]
    ELSE fields[1] \o sep \o join(Tail(fields), sep)

\* all but the last element: lst[:-1]
butlast(lst) == IF lst = <<>> THEN <<>> ELSE SubSeq(lst, 1, Len(lst) - 1)

\* fnmatch.fnmatch(name, pat) on POSIX (normcase is the identity there), for
\* patterns made of literal characters, '*' and '?'.  The set `at` holds the
\* lengths of the prefixes of `name` that the pattern read so far can match.
RECURSIVE fnmatchFrom(_, _, _)
fnmatchFrom(name, pat, at) ==
    IF pat = <<>> THEN Len(name) \in at
    ELSE IF at = {} THEN FALSE
    ELSE LET c == Head(pat)
             next ==
                 IF c = "*"
                 THEN {j \in 0..Len(name) : \E i \in at : i <= j}
                 ELSE IF c = "?"
                 THEN {i + 1 : i \in {k \in at : k < Len(name)}}
                 ELSE {i + 1 : i \in {k \in at : k < Len(name) /\ name[k + 1] = c}}
         IN  fnmatchFrom(name, Tail(pat), next)

fnmatch(name, pat) == fnmatchFrom(name, pat, {0})

---------------------------------------------------------------------------
(* pathlib and the local filesystem.                                       *)
(* A filesystem maps canonical absolute paths (sequences of components,    *)
(* the root being <<>>) to nodes; every ancestor of a node is a directory. *)

n_home     == <<"h","o","m","e">>
n_homework == <<"h","o","m","e","w","o","r","k">>
n_etc      == <<"e","t","c">>
n_x        == <<"x">>
n_lnk      == <<"l","n","k">>
n_bs       == <<"h","o","m","e","\\","x">>
n_workspace == <<"w","o","r","k","s","p","a","c","e">>
n_big      == <<"b","i","g">>
n_max      == <<"m","a","x">>
n_new      == <<"n","e","w">>
n_f        == <<"f">>
DotDot     == <<".",".">>
Dot        == <<".">>

\* the working directory of the process (Path.cwd())
CWD == <<n_home>>

Dir          == [kind |-> "dir",  target |-> <<>>, content |-> <<>>, size |-> 0]
File(c, n)   == [kind |-> "file", target |-> <<>>, content |-> c, size |-> n]
Link(t)      == [kind |-> "link", target |-> t,    content |-> <<>>, size |-> 0]

\* Path(text): split on '/', empty and '.' components dropped, '..' kept
PathOf(text) ==
    [abs   |-> text # <<>> /\ text[1] = "/",
     parts |-> SelectSeq(split(text, "/"), LAMBDA c : c # <<>> /\ c # Dot)]

\* str(path) of an absolute path given by its parts
str(parts) == <<"/">> \o join(parts, <<"/">>)

\* path.parent, path.name
parent(P) == [abs |-> P.abs, parts |-> butlast(P.parts)]
name(P)   == IF P.parts = <<>> THEN <<>> ELSE P.parts[Len(P.parts)]

absparts(P) == IF P.abs THEN P.parts ELSE CWD \o P.parts

\* the number of symbolic links of a filesystem
LinkFuel(f) == Cardinality({p \in DOMAIN f : f[p].kind = "link"})

\* The kernel's / os.path.realpath's walk over the components `rest` from the
\* canonical directory `cur`: '..' steps to the physical parent, a symbolic
\* link is followed, and following more links than `fuel` allows is a loop
\* (ELOOP).  strict = TRUE is stat(): every component must exist;
\* strict = FALSE is realpath(strict=False): a missing component is appended.
RECURSIVE walk(_, _, _, _, _)
walk(f, cur, rest, strict, fuel) ==
    IF rest = <<>> THEN [st |-> "ok", at |-> cur]
    ELSE LET nm   == Head(rest)
             more == Tail(rest)
             new  == Append(cur, nm)
         IN  IF nm = DotDot THEN walk(f, butlast(cur), more, strict, fuel)
             ELSE IF new \in DOMAIN f /\ f[new].kind = "link"
             THEN IF fuel = 0 THEN [st |-> "loop", at |-> new]
                  ELSE walk(f, <<>>, f[new].target \o more, strict, fuel - 1)
             ELSE IF strict /\ (new \notin DOMAIN f
                                \/ (more # <<>> /\ f[new].kind # "dir"))
             THEN [st |-> "missing", at |-> new]
             ELSE walk(f, new, more, strict, fuel)

\* os.stat(parts): the canonical location of the object, links followed
stat(f, parts) == walk(f, <<>>, parts, TRUE, LinkFuel(f) * (Len(parts) + 1))

\* Path.exists(): stat() succeeded (ENOENT, ENOTDIR and ELOOP give False)
exists(f, P) == stat(f, absparts(P)).st = "ok"

\* Path.resolve(): realpath(strict=False); a symlink loop raises RuntimeError
resolve(f, P) ==
    walk(f, <<>>, absparts(P), FALSE, LinkFuel(f) * (Len(absparts(P)) + 1))

---------------------------------------------------------------------------
(* SecurityPolicy (tools/security.py)                                      *)

\* SecurityPolicy.is_blocked
is_blocked(path, blocked_patterns) ==
    LET path_str == replace(str(path), "\\", "/")
    IN  \E i \in 1..Len(blocked_patterns) :
            LET pattern_std == replace(blocked_patterns[i], "\\", "/")
            IN  fnmatch(path_str, <<"*">> \o pattern_std \o <<"*">>)

\* root_matches without the test of the character after the prefix
root_matches_prefix_only(f, path_str, root) ==
    LET r == resolve(f, PathOf(root))
        root_str == replace(str(r.at), "\\", "/")
    IN  r.st = "ok" /\ startswith(path_str, root_str)

\* one iteration of the loop of SecurityPolicy.is_allowed
root_matches(f, path_str, root) ==
    LET r == resolve(f, PathOf(root))
        root_str == replace(str(r.at), "\\", "/")
    IN  /\ r.st = "ok"
        /\ startswith(path_str, root_str)
        /\ \/ Len(path_str) = Len(root_str)
           \/ path_str[Len(root_str) + 1] = "/"

\* SecurityPolicy.is_allowed
is_allowed(f, path, allowed_roots) ==
    LET path_str == replace(str(path), "\\", "/")
    IN  \E i \in 1..Len(allowed_roots) : root_matches(f, path_str, allowed_roots[i])

\* resolve_safe_path with the whitelist checked before the blacklist
resolve_safe_path_whitelist_first(f, requested_path, must_exist, allowed_roots, blocked_patterns) ==
    LET requested == PathOf(requested_path)
        direct == must_exist /\ exists(f, requested)
        r == IF direct THEN resolve(f, requested) ELSE resolve(f, parent(requested))
        leaf == IF name(requested) = <<>> THEN <<>> ELSE <<name(requested)>>
        target_path == IF direct THEN r.at ELSE r.at \o leaf
    IN  IF r.st # "ok"
        THEN [status |-> "resolution_failed", path |-> <<>>]
        ELSE IF ~is_allowed(f, target_path, allowed_roots)
        THEN [status |-> "outside", path |-> target_path]
        ELSE IF is_blocked(target_path, blocked_patterns)
        THEN [status |-> "blocked", path |-> target_path]
        ELSE [status |-> "ok", path |-> target_path]

\* SecurityPolicy.resolve_safe_path: the path returned, or the PermissionError
resolve_safe_path(f, requested_path, must_exist, allowed_roots, blocked_patterns) ==
    LET requested == PathOf(requested_path)
        direct == must_exist /\ exists(f, requested)
        r == IF direct THEN resolve(f, requested) ELSE resolve(f, parent(requested))
        leaf == IF name(requested) = <<>> THEN <<>> ELSE <<name(requested)>>
        target_path == IF direct THEN r.at ELSE r.at \o leaf
    IN  IF r.st # "ok"
        THEN [status |-> "resolution_failed", path |-> <<>>]
        ELSE IF is_blocked(target_path, blocked_patterns)
        THEN [status |-> "blocked", path |-> target_path]
        ELSE IF ~is_allowed(f, target_path, allowed_roots)
        THEN [status |-> "outside", path |-> target_path]
        ELSE [status |-> "ok", path |-> target_path]

\* SecurityPolicy.DANGEROUS_COMMANDS
DANGEROUS_COMMANDS ==
    << <<"r","m"," ","-","r","f"," ","/">>,
       <<"r","m"," ","-","r","f"," ","/","*">>,
       <<"f","o","r","m","a","t"," ","c",":">>,
       <<"d","e","l"," ","/","s"," ","/","q"," ","c",":","\\">>,
       <<":","(",")","{"," ",":","|",":","&"," ","}",";",":">>,
       <<"m","k","f","s">>,
       <<"d","d"," ","i","f","=","/","d","e","v","/","z","e","r","o">>,
       <<"c","h","m","o","d"," ","-","R"," ","7","7","7"," ","/">>,
       <<"c","h","o","w","n"," ","-","R"," ","r","o","o","t",":","r","o","o","t"," ","/">>,
       <<"s","h","u","t","d","o","w","n"," ","-","h"," ","n","o","w">>,
       <<"i","n","i","t"," ","0">>,
       <<"s","h","u","t","d","o","w","n"," ","/","s"," ","0">> >>

\* is_dangerous_command comparing the patterns as written, not lower-cased
is_dangerous_command_patterns_as_written(command) ==
    LET command_lower == lower(command)
    IN  \E i \in 1..Len(DANGEROUS_COMMANDS) :
            contains(command_lower, DANGEROUS_COMMANDS[i])

\* SecurityPolicy.is_dangerous_command
is_dangerous_command(command) ==
    LET command_lower == lower(command)
    IN  \E i \in 1..Len(DANGEROUS_COMMANDS) :
            contains(command_lower, lower(DANGEROUS_COMMANDS[i]))

---------------------------------------------------------------------------
(* Executors (tools/executors/base.py, local.py, ssh.py, winrm.py)         *)
(* A method is an operator of the executor's fields `self`, the local      *)
(* filesystem `f`, the arguments of the call and what the world outside    *)
(* the program answered.  It yields the value returned, the calls made on  *)
(* the transport or the filesystem in order (eff), the canonical locations *)
(* of the local objects opened, listed or tested (touched) and the         *)
(* filesystem left behind.                                                 *)

\* ExecutionResult(target=...) with the defaults of the other fields
ExecutionResult(target) ==
    [ok |-> FALSE, stdout |-> <<>>, stderr |-> <<>>, content |-> <<>>,
     path |-> <<>>, error |-> <<>>, returncode |-> 0, target |-> target]

\* ExecutionResult(ok=False, error=error, target=self.name)
Failure(self, error) == [ExecutionResult(self.name) EXCEPT !.error = error]

\* value = ...; rest of the method: binds the value once for what follows
With(value, Rest(_)) == Rest(value)

\* what a method did and left behind; running: the processes it started that
\* are still running when it returns
StepRunning(res, ret, eff, touched, f, running) ==
    [res |-> res, ret |-> ret, eff |-> eff, touched |-> touched, fs |-> f,
     running |-> running, raised |-> FALSE]

Step(res, ret, eff, touched, f) == StepRunning(res, ret, eff, touched, f, {})

\* the method did not return: an exception left it
Raised(step) == [step EXCEPT !.raised = TRUE]

Effect(act, arg) == [act |-> act, arg |-> arg]

\* the argument that was not given: no text, and no text is it
None == <<"None">>

\* text handed back whole, not cut at 2000 characters
untruncated(text) == SubSeq(text, 1, Len(text))

\* text[:2000]
first2000(text) == SubSeq(text, 1, IF Len(text) < 2000 THEN Len(text) ELSE 2000)

\* str(e) of the exceptions the world outside can raise: asyncio.TimeoutError
\* carries no message, the others do
TimeoutError_str == <<>>
OSError_str      == <<"[","E","r","r","n","o"," ","5","]"," ","I","n","p","u","t","/","o","u","t","p","u","t"," ","e","r","r","o","r">>
SSHException_str == <<"S","S","H"," ","s","e","s","s","i","o","n"," ","n","o","t"," ","a","c","t","i","v","e">>
WinRMError_str   == <<"W","i","n","R","M"," ","t","r","a","n","s","p","o","r","t"," ","e","r","r","o","r">>

SecurityViolation == <<"S","e","c","u","r","i","t","y"," ","V","i","o","l","a","t","i","o","n",":"," ">>
DangerousCommandDetected == <<"S","e","c","u","r","i","t","y"," ","V","i","o","l","a","t","i","o","n",":"," ","D","a","n","g","e","r","o","u","s"," ","c","o","m","m","a","n","d"," ","d","e","t","e","c","t","e","d">>
timed_out == <<"C","o","m","m","a","n","d"," ","t","i","m","e","d"," ","o","u","t"," ","a","f","t","e","r"," ","6","0","s">>
FileTooLarge == <<"F","i","l","e"," ","t","o","o"," ","l","a","r","g","e"," ","(",">","2","M","B",")">>

\* str(e) of the PermissionError resolve_safe_path raised with result r
PermissionError_str(f, r, allowed_roots) ==
    LET allowed_str ==
            join([i \in 1..Len(allowed_roots) |->
                     str(resolve(f, PathOf(allowed_roots[i])).at)], <<","," ">>)
    IN  CASE r.status = "blocked" ->
                 <<"A","c","c","e","s","s"," ","D","e","n","i","e","d",":"," ","P","a","t","h"," ","'">> \o str(r.path)
                     \o <<"'"," ","i","s"," ","i","n"," ","a"," ","b","l","o","c","k","e","d"," ","s","y","s","t","e","m"," ","d","i","r","e","c","t","o","r","y",".">>
          [] r.status = "outside" ->
                 <<"A","c","c","e","s","s"," ","D","e","n","i","e","d",":"," ","P","a","t","h"," ","'">> \o str(r.path)
                     \o <<"'"," ","i","s"," ","o","u","t","s","i","d","e"," ","a","l","l","o","w","e","d"," ","r","o","o","t","s",".","\n","A","l","l","o","w","e","d"," ","r","o","o","t","s",":"," ","[">>
                     \o allowed_str \o <<"]">>
          [] OTHER -> <<"P","a","t","h"," ","r","e","s","o","l","u","t","i","o","n"," ","f","a","i","l","e","d",":"," ","S","y","m","l","i","n","k"," ","l","o","o","p">>

\* os.mkdir(parts): the parent must be an existing directory and the name new
mkdir(f, parts) ==
    LET par == stat(f, butlast(parts))
        new == par.at \o <<parts[Len(parts)]>>
    IN  IF parts = <<>> THEN [st |-> "EEXIST", fs |-> f]
        ELSE IF par.st = "loop" THEN [st |-> "ELOOP", fs |-> f]
        ELSE IF par.st = "missing"
        THEN [st |-> IF par.at \in DOMAIN f THEN "ENOTDIR" ELSE "ENOENT", fs |-> f]
        ELSE IF f[par.at].kind # "dir" THEN [st |-> "ENOTDIR", fs |-> f]
        ELSE IF parts[Len(parts)] = DotDot \/ new \in DOMAIN f
        THEN [st |-> "EEXIST", fs |-> f]
        ELSE [st |-> "ok", fs |-> f @@ (new :> Dir)]

\* Path.is_dir(): stat() succeeded on a directory
is_dir(f, parts) ==
    LET s == stat(f, parts) IN s.st = "ok" /\ f[s.at].kind = "dir"

\* Path.is_file(): stat() succeeded on a regular file
is_file(f, parts) ==
    LET s == stat(f, parts) IN s.st = "ok" /\ f[s.at].kind = "file"

\* Path(parts).mkdir(parents=True, exist_ok=True)
RECURSIVE mkdir_parents(_, _)
mkdir_parents(f, parts) ==
    LET first == mkdir(f, parts)
    IN  IF first.st = "ok" THEN first
        ELSE IF first.st = "ENOENT"
        THEN IF parts = <<>> THEN first
             ELSE LET up == mkdir_parents(f, butlast(parts))
                  IN  IF up.st # "ok" THEN up
                      ELSE LET again == mkdir(up.fs, parts)
                           IN  IF again.st = "EEXIST" /\ is_dir(up.fs, parts)
                               THEN [st |-> "ok", fs |-> up.fs]
                               ELSE again
        ELSE IF is_dir(f, parts) THEN [st |-> "ok", fs |-> f]
        ELSE first

\* open(parts, 'w'): the location of the file created or truncated; a symbolic
\* link in the last place is followed, a dangling one creates its target
RECURSIVE open_w(_, _, _)
open_w(f, parts, fuel) ==
    LET par == stat(f, butlast(parts))
        new == par.at \o <<parts[Len(parts)]>>
    IN  IF parts = <<>> THEN [st |-> "EISDIR", at |-> <<>>]
        ELSE IF par.st = "loop" THEN [st |-> "ELOOP", at |-> par.at]
        ELSE IF par.st = "missing"
        THEN [st |-> IF par.at \in DOMAIN f THEN "ENOTDIR" ELSE "ENOENT", at |-> par.at]
        ELSE IF f[par.at].kind # "dir" THEN [st |-> "ENOTDIR", at |-> par.at]
        ELSE IF parts[Len(parts)] = DotDot THEN [st |-> "EISDIR", at |-> butlast(par.at)]
        ELSE IF new \notin DOMAIN f THEN [st |-> "ok", at |-> new]
        ELSE IF f[new].kind = "dir" THEN [st |-> "EISDIR", at |-> new]
        ELSE IF f[new].kind = "file" THEN [st |-> "ok", at |-> new]
        ELSE IF fuel = 0 THEN [st |-> "ELOOP", at |-> new]
        ELSE open_w(f, f[new].target, fuel - 1)

\* str(e) of the OSError with the given errno
errno_str(st, path_str) ==
    (CASE st = "ENOENT"  -> <<"[","E","r","r","n","o"," ","2","]"," ","N","o"," ","s","u","c","h"," ","f","i","l","e"," ","o","r"," ","d","i","r","e","c","t","o","r","y",":"," ","'">>
       [] st = "EEXIST"  -> <<"[","E","r","r","n","o"," ","1","7","]"," ","F","i","l","e"," ","e","x","i","s","t","s",":"," ","'">>
       [] st = "ENOTDIR" -> <<"[","E","r","r","n","o"," ","2","0","]"," ","N","o","t"," ","a"," ","d","i","r","e","c","t","o","r","y",":"," ","'">>
       [] st = "EISDIR"  -> <<"[","E","r","r","n","o"," ","2","1","]"," ","I","s"," ","a"," ","d","i","r","e","c","t","o","r","y",":"," ","'">>
       [] OTHER          -> <<"[","E","r","r","n","o"," ","4","0","]"," ","T","o","o"," ","m","a","n","y"," ","l","e","v","e","l","s"," ","o","f"," ","s","y","m","b","o","l","i","c"," ","l","i","n","k","s",":"," ","'">>)
    \o path_str \o <<"'">>

\* the entries of the directory at the canonical location `at`
listdir(f, at) ==
    {p[Len(p)] : p \in {q \in DOMAIN f : Len(q) = Len(at) + 1
                                         /\ SubSeq(q, 1, Len(at)) = at}}

\* an enumeration of a set of names, or that enumeration backwards: the order
\* in which the system hands out directory entries is not fixed
ordering(names, backwards) ==
    LET n == Cardinality(names)
        one == CHOOSE s \in [1..n -> names] : \A i, j \in 1..n : i # j => s[i] # s[j]
    IN  IF backwards THEN [i \in 1..n |-> one[n + 1 - i]] ELSE one

\* LocalExecutor.connect: the value returned, the fields and the filesystem
local_connect(self, f, raises) ==
    With(mkdir_parents(f, CWD \o <<n_workspace>>), LAMBDA workspace :
        IF raises \/ workspace.st # "ok"
        THEN [ret |-> FALSE, self |-> self, fs |-> f,
              eff |-> <<Effect("mkdir", str(CWD \o <<n_workspace>>))>>]
        ELSE [ret |-> TRUE, self |-> [self EXCEPT !.connected = TRUE],
              fs |-> workspace.fs,
              eff |-> <<Effect("mkdir", str(CWD \o <<n_workspace>>))>>])

\* LocalExecutor.disconnect
local_disconnect(self) == [self EXCEPT !.connected = FALSE]

\* the processes of a command: the shell create_subprocess_shell started and
\* the children the shell has started, all in the process group of the caller
shell == 0
processes(outcome) == shell..outcome.children

\* Process.kill(): SIGKILL to the one process `pid`
kill(procs, pid) == procs \ {pid}

\* LocalExecutor.execute_command; outcome is what became of the subprocess
local_execute_command(self, f, command, outcome) ==
    IF is_dangerous_command(command)
    THEN Step(Failure(self, DangerousCommandDetected), FALSE, <<>>, {}, f)
    ELSE IF outcome.k = "raise"
    THEN Step(Failure(self, OSError_str), FALSE,
              <<Effect("create_subprocess_shell", command)>>, {}, f)
    ELSE IF outcome.k = "timeout"
    THEN StepRunning(Failure(self, timed_out), FALSE,
                     <<Effect("create_subprocess_shell", command),
                       Effect("process.kill", command)>>, {}, f,
                     kill(processes(outcome), shell))
    ELSE Step([ExecutionResult(self.name) EXCEPT
                   !.ok = TRUE,
                   !.stdout = first2000(outcome.out),
                   !.stderr = first2000(outcome.err),
                   !.returncode = outcome.rc],
              FALSE, <<Effect("create_subprocess_shell", command)>>, {}, f)

\* f.read() of a file opened in text mode with the default newline=None:
\* every "\r\n" and every other "\r" of the file arrives as "\n"
RECURSIVE universal_newlines(_)
universal_newlines(text) ==
    IF \A i \in 1..Len(text) : text[i] # "\r" THEN text
    ELSE LET i == CHOOSE i \in 1..Len(text) :
                      text[i] = "\r" /\ \A j \in 1..(i - 1) : text[j] # "\r"
             skip == IF i < Len(text) /\ text[i + 1] = "\n" THEN 2 ELSE 1
         IN  SubSeq(text, 1, i - 1) \o <<"\n">>
                 \o universal_newlines(SubSeq(text, i + skip, Len(text)))

\* LocalExecutor.read_file; raises: open() or read() failed with an OSError
local_read_file(self, f, path, raises) ==
    With(resolve_safe_path(f, path, TRUE, self.allowed_roots,
                           self.blocked_patterns), LAMBDA safe :
    With(str(safe.path), LAMBDA safe_path :
    With(stat(f, safe.path), LAMBDA found :
        LET max_size == 2 * 1024 * 1024
            at == found.at
        IN  IF safe.status # "ok"
            THEN Step(Failure(self, SecurityViolation
                                  \o PermissionError_str(f, safe, self.allowed_roots)),
                      FALSE, <<>>, {}, f)
            ELSE IF ~(found.st = "ok" /\ f[at].kind = "file")
            THEN Step(Failure(self, <<"F","i","l","e"," ","n","o","t"," ","f","o","u","n","d",":"," ">> \o path), FALSE,
                      <<Effect("is_file", safe_path)>>, {}, f)
            ELSE IF f[at].size > max_size
            THEN Step(Failure(self, <<"F","i","l","e"," ","t","o","o"," ","l","a","r","g","e"," ","(",">","2","M","B",")",":"," ">> \o safe_path), FALSE,
                      <<Effect("is_file", safe_path), Effect("stat", safe_path)>>,
                      {at}, f)
            ELSE IF raises
            THEN Step(Failure(self, OSError_str), FALSE,
                      <<Effect("is_file", safe_path), Effect("stat", safe_path),
                        Effect("open.r", safe_path)>>, {at}, f)
            ELSE Step([ExecutionResult(self.name) EXCEPT
                           !.ok = TRUE,
                           !.content = universal_newlines(f[at].content),
                           !.path = safe_path],
                      FALSE,
                      <<Effect("is_file", safe_path), Effect("stat", safe_path),
                        Effect("open.r", safe_path)>>, {at}, f))))

\* the filesystem f with the regular file `node` at the location `at`
written(f, at, node) ==
    [p \in DOMAIN f \cup {at} |-> IF p = at THEN node ELSE f[p]]

\* LocalExecutor.write_file; raises: write() failed with an OSError
local_write_file(self, f, path, content, raises) ==
    With(resolve_safe_path(f, path, FALSE, self.allowed_roots,
                           self.blocked_patterns), LAMBDA safe :
    With(str(safe.path), LAMBDA safe_path :
    With(mkdir_parents(f, butlast(safe.path)), LAMBDA made :
    With(open_w(made.fs, safe.path, LinkFuel(f) + 1), LAMBDA opened :
    With(<<Effect("mkdir", str(butlast(safe.path)))>>, LAMBDA mkdir_eff :
        IF safe.status # "ok"
        THEN Step(Failure(self, SecurityViolation
                              \o PermissionError_str(f, safe, self.allowed_roots)),
                  FALSE, <<>>, {}, f)
        ELSE IF made.st # "ok"
        THEN Step(Failure(self, errno_str(made.st, str(butlast(safe.path)))), FALSE,
                  mkdir_eff, {}, made.fs)
        ELSE IF opened.st # "ok"
        THEN Step(Failure(self, errno_str(opened.st, safe_path)), FALSE,
                  mkdir_eff \o <<Effect("open.w", safe_path)>>, {}, made.fs)
        ELSE IF raises
        THEN Step(Failure(self, OSError_str), FALSE,
                  mkdir_eff \o <<Effect("open.w", safe_path)>>, {opened.at},
                  written(made.fs, opened.at, File(<<>>, 0)))
        ELSE Step([ExecutionResult(self.name) EXCEPT
                       !.ok = TRUE, !.path = safe_path],
                  FALSE,
                  mkdir_eff \o <<Effect("open.w", safe_path)>>, {opened.at},
                  written(made.fs, opened.at, File(content, Len(content)))))))))

\* LocalExecutor.file_exists
local_file_exists(self, f, path) ==
    With(resolve_safe_path(f, path, FALSE, self.allowed_roots,
                           self.blocked_patterns), LAMBDA safe :
    With(stat(f, safe.path), LAMBDA found :
        IF safe.status # "ok"
        THEN Step(ExecutionResult(self.name), FALSE, <<>>, {}, f)
        ELSE Step(ExecutionResult(self.name), found.st = "ok",
                  <<Effect("exists", str(safe.path))>>,
                  IF found.st = "ok" THEN {found.at} ELSE {}, f)))

\* "dir: name" or "file: name" for each entry of the directory safe_path
items_of(f, safe_path, entries) ==
    [i \in 1..Len(entries) |->
        (IF is_dir(f, safe_path \o <<entries[i]>>)
         THEN <<"d","i","r">> ELSE <<"f","i","l","e">>) \o <<":"," ">> \o entries[i]]

\* LocalExecutor.list_directory; backwards: the order of the entries
local_list_directory(self, f, path, backwards) ==
    With(resolve_safe_path(f, path, FALSE, self.allowed_roots,
                           self.blocked_patterns), LAMBDA safe :
    With(str(safe.path), LAMBDA safe_path :
    With(stat(f, safe.path), LAMBDA found :
        IF safe.status # "ok"
        THEN Step(Failure(self, PermissionError_str(f, safe, self.allowed_roots)),
                  FALSE, <<>>, {}, f)
        ELSE IF found.st # "ok"
        THEN Step(Failure(self, <<"P","a","t","h"," ","n","o","t"," ","f","o","u","n","d",":"," ">> \o path), FALSE,
                  <<Effect("exists", safe_path)>>, {}, f)
        ELSE IF f[found.at].kind # "dir"
        THEN Step(Failure(self, errno_str("ENOTDIR", safe_path)), FALSE,
                  <<Effect("exists", safe_path), Effect("iterdir", safe_path)>>,
                  {found.at}, f)
        ELSE Step([ExecutionResult(self.name) EXCEPT
                       !.ok = TRUE,
                       !.content =
                           join(items_of(f, safe.path,
                                         ordering(listdir(f, found.at), backwards)),
                                <<"\n">>),
                       !.path = safe_path],
                  FALSE,
                  <<Effect("exists", safe_path), Effect("iterdir", safe_path)>>,
                  {found.at}, f))))

\* a value Python takes as true: neither None nor the empty text
truthy(value) == value # None /\ value # <<>>

\* the credentials connect() puts in connect_kwargs, lines 52-62: the key
\* when a key path is configured and the file is there, nothing when it is
\* configured and the file is not there, the password only when no key path
\* is configured
connect_kwargs(self, f) ==
    IF truthy(self.ssh_config.private_key_path)
    THEN IF exists(f, PathOf(self.ssh_config.private_key_path))
         THEN <<"pkey">> ELSE <<>>
    ELSE IF truthy(self.ssh_config.password) THEN <<"password">> ELSE <<>>

\* SSHExecutor.connect; outcome: "ok", or which call raised
ssh_connect(self, f, outcome) ==
    LET attempt == Effect("client.connect", connect_kwargs(self, f))
    IN  IF outcome = "key_raises" /\ connect_kwargs(self, f) = <<"pkey">>
        THEN [ret |-> FALSE, self |-> [self EXCEPT !.client = "new"], fs |-> f,
              eff |-> <<>>]
        ELSE IF outcome = "connect_raises"
        THEN [ret |-> FALSE, self |-> [self EXCEPT !.client = "new"], fs |-> f,
              eff |-> <<attempt>>]
        ELSE IF outcome = "open_sftp_raises"
        THEN [ret |-> FALSE, self |-> [self EXCEPT !.client = "open"], fs |-> f,
              eff |-> <<attempt, Effect("client.open_sftp", <<>>)>>]
        ELSE [ret |-> TRUE,
              self |-> [self EXCEPT !.client = "open", !.sftp = "open",
                                    !.connected = TRUE],
              fs |-> f,
              eff |-> <<attempt, Effect("client.open_sftp", <<>>)>>]

\* SSHExecutor.disconnect without the finally clause: connected is cleared
\* only when no close() raised
ssh_disconnect_no_finally(self, raises) ==
    [self EXCEPT
        !.sftp = IF self.sftp = "None" \/ raises THEN self.sftp ELSE "closed",
        !.client = IF self.client = "None" \/ raises THEN self.client ELSE "closed",
        !.connected = IF raises THEN self.connected ELSE FALSE]

\* SSHExecutor.disconnect; raises: the first close() called raised
ssh_disconnect(self, raises) ==
    [self EXCEPT
        !.sftp = IF self.sftp = "None" \/ raises THEN self.sftp ELSE "closed",
        !.client = IF self.client = "None" \/ raises THEN self.client ELSE "closed",
        !.connected = FALSE]

\* SSHExecutor.execute_command without the test of is_dangerous_command
ssh_execute_command_unchecked(self, f, command, outcome) ==
    LET sent == <<Effect("client.exec_command", command)>>
    IN  IF ~self.connected \/ self.client = "None"
        THEN Step(Failure(self, <<"S","S","H"," ","n","o","t"," ","c","o","n","n","e","c","t","e","d">>), FALSE, <<>>, {}, f)
        ELSE IF self.client # "open" \/ outcome.k = "raise"
        THEN Step(Failure(self, SSHException_str), FALSE, sent, {}, f)
        ELSE IF outcome.k = "timeout"
        THEN Step(Failure(self, timed_out), FALSE, sent, {}, f)
        ELSE Step([ExecutionResult(self.name) EXCEPT
                       !.ok = TRUE,
                       !.stdout = first2000(outcome.out),
                       !.stderr = first2000(outcome.err),
                       !.returncode = outcome.rc],
                  FALSE, sent, {}, f)

\* SSHExecutor.execute_command; outcome is what became of the remote command
ssh_execute_command(self, f, command, outcome) ==
    LET sent == <<Effect("client.exec_command", command)>>
    IN  IF ~self.connected \/ self.client = "None"
        THEN Step(Failure(self, <<"S","S","H"," ","n","o","t"," ","c","o","n","n","e","c","t","e","d">>), FALSE, <<>>, {}, f)
        ELSE IF is_dangerous_command(command)
        THEN Step(Failure(self, DangerousCommandDetected), FALSE, <<>>, {}, f)
        ELSE IF self.client # "open" \/ outcome.k = "raise"
        THEN Step(Failure(self, SSHException_str), FALSE, sent, {}, f)
        ELSE IF outcome.k = "timeout"
        THEN Step(Failure(self, timed_out), FALSE, sent, {}, f)
        ELSE Step([ExecutionResult(self.name) EXCEPT
                       !.ok = TRUE,
                       !.stdout = first2000(outcome.out),
                       !.stderr = first2000(outcome.err),
                       !.returncode = outcome.rc],
                  FALSE, sent, {}, f)

\* SSHExecutor.read_file; outcome is what became of the transfer: the bytes
\* read (outcome.n of them), an exception, or no answer within
\* the 30 seconds of asyncio.wait_for
ssh_read_file(self, f, path, outcome) ==
    LET opened == <<Effect("sftp.open.r", path)>>
    IN  IF ~self.connected \/ self.sftp = "None"
        THEN Step(Failure(self, <<"S","S","H"," ","n","o","t"," ","c","o","n","n","e","c","t","e","d">>), FALSE, <<>>, {}, f)
        ELSE IF self.sftp # "open" \/ outcome.k = "raise"
        THEN Step(Failure(self, OSError_str), FALSE, opened, {}, f)
        ELSE IF outcome.k = "timeout"
        THEN Step(Failure(self, TimeoutError_str), FALSE, opened, {}, f)
        ELSE IF outcome.n > 2 * 1024 * 1024
        THEN Step(Failure(self, FileTooLarge), FALSE, opened, {}, f)
        ELSE Step([ExecutionResult(self.name) EXCEPT
                       !.ok = TRUE, !.content = outcome.out, !.path = path],
                  FALSE, opened, {}, f)

\* SSHExecutor.write_file; outcome: of the mkdir command, raises: the transfer
ssh_write_file(self, f, path, content, outcome, raises) ==
    LET remote_dir == join(butlast(split(path, "/")), <<"/">>)
        made == IF remote_dir # <<>>
                THEN ssh_execute_command(self, f, <<"m","k","d","i","r"," ","-","p"," ">> \o remote_dir,
                                         outcome).eff
                ELSE <<>>
        opened == made \o <<Effect("sftp.open.w", path)>>
    IN  IF ~self.connected \/ self.sftp = "None"
        THEN Step(Failure(self, <<"S","S","H"," ","n","o","t"," ","c","o","n","n","e","c","t","e","d">>), FALSE, <<>>, {}, f)
        ELSE IF self.sftp # "open" \/ raises
        THEN Step(Failure(self, OSError_str), FALSE, opened, {}, f)
        ELSE Step([ExecutionResult(self.name) EXCEPT !.ok = TRUE, !.path = path],
                  FALSE, opened, {}, f)

\* SSHExecutor.file_exists without the try around sftp.stat
ssh_file_exists_unguarded(self, f, path, raises) ==
    IF ~self.connected \/ self.sftp = "None"
    THEN Step(ExecutionResult(self.name), FALSE, <<>>, {}, f)
    ELSE IF self.sftp # "open" \/ raises
    THEN Raised(Step(ExecutionResult(self.name), FALSE,
                     <<Effect("sftp.stat", path)>>, {}, f))
    ELSE Step(ExecutionResult(self.name), TRUE,
              <<Effect("sftp.stat", path)>>, {}, f)

\* SSHExecutor.file_exists; raises: sftp.stat raised
ssh_file_exists(self, f, path, raises) ==
    IF ~self.connected \/ self.sftp = "None"
    THEN Step(ExecutionResult(self.name), FALSE, <<>>, {}, f)
    ELSE Step(ExecutionResult(self.name), self.sftp = "open" /\ ~raises,
              <<Effect("sftp.stat", path)>>, {}, f)

\* SSHExecutor.list_directory; entries: what sftp.listdir_attr returned
ssh_list_directory(self, f, path, entries, raises) ==
    LET items == [i \in 1..Len(entries) |->
                     (IF entries[i].isdir THEN <<"d","i","r">> ELSE <<"f","i","l","e">>)
                         \o <<":"," ">> \o entries[i].filename]
    IN  IF ~self.connected \/ self.sftp = "None"
        THEN Step(Failure(self, <<"S","S","H"," ","n","o","t"," ","c","o","n","n","e","c","t","e","d">>), FALSE, <<>>, {}, f)
        ELSE IF self.sftp # "open" \/ raises
        THEN Step(Failure(self, OSError_str), FALSE,
                  <<Effect("sftp.listdir_attr", path)>>, {}, f)
        ELSE Step([ExecutionResult(self.name) EXCEPT
                       !.ok = TRUE, !.content = join(items, <<"\n">>),
                       !.path = path],
                  FALSE, <<Effect("sftp.listdir_attr", path)>>, {}, f)

\* the printable ASCII characters of codes 32..95 and of codes 97..126
AsciiLow ==
    <<" ","!","\"","#","$","%","&","'","(",")","*","+",",","-",".","/",
      "0","1","2","3","4","5","6","7","8","9",":",";","<","=",">","?",
      "@","A","B","C","D","E","F","G","H","I","J","K","L","M","N","O",
      "P","Q","R","S","T","U","V","W","X","Y","Z","[","\\","]","^","_">>

AsciiHigh ==
    <<"a","b","c","d","e","f","g","h","i","j","k","l","m","n","o",
      "p","q","r","s","t","u","v","w","x","y","z","{","|","}","~">>

\* ord(c) of a printable ASCII character, of a line feed, of a carriage
\* return
ord(c) ==
    IF c = "\n" THEN 10
    ELSE IF c = "\r" THEN 13
    ELSE IF \E i \in 1..Len(AsciiLow) : AsciiLow[i] = c
    THEN 31 + (CHOOSE i \in 1..Len(AsciiLow) : AsciiLow[i] = c)
    ELSE 96 + (CHOOSE i \in 1..Len(AsciiHigh) : AsciiHigh[i] = c)

\* text.encode('utf-8') of ASCII text: one byte for each character
encode(text) == <<>> \o [i \in 1..Len(text) |-> ord(text[i])]

B64Alphabet ==
    <<"A","B","C","D","E","F","G","H","I","J","K","L","M","N","O","P","Q","R","S","T","U","V","W","X","Y","Z","a","b","c","d","e","f","g","h","i","j","k","l","m","n","o","p","q","r","s","t","u","v","w","x","y","z","0","1","2","3","4","5","6","7","8","9","+","/">>

\* base64.b64encode(bytes).decode('utf-8')
b64encode(bytes) ==
    LET digit(n) == B64Alphabet[n + 1]
        byte(i) == IF i <= Len(bytes) THEN bytes[i] ELSE 0
        \* the j-th character of the g-th group of three bytes
        char(g, j) ==
            LET b1 == byte(3 * g - 2)
                b2 == byte(3 * g - 1)
                b3 == byte(3 * g)
            IN  CASE j = 1 -> digit(b1 \div 4)
                  [] j = 2 -> digit((b1 % 4) * 16 + b2 \div 16)
                  [] j = 3 -> IF 3 * g - 1 > Len(bytes) THEN "="
                              ELSE digit((b2 % 16) * 4 + b3 \div 64)
                  [] j = 4 -> IF 3 * g > Len(bytes) THEN "="
                              ELSE digit(b3 % 64)
    IN  <<>> \o [i \in 1..(4 * ((Len(bytes) + 2) \div 3)) |->
                    char(((i - 1) \div 4) + 1, ((i - 1) % 4) + 1)]

Whitespace == {" ", "\t", "\n", "\r"}

\* str.strip()
RECURSIVE strip(_)
strip(text) ==
    IF text = <<>> THEN <<>>
    ELSE IF text[1] \in Whitespace THEN strip(Tail(text))
    ELSE IF text[Len(text)] \in Whitespace THEN strip(butlast(text))
    ELSE text

\* WinRMExecutor.connect without the test of the probe's status code
winrm_connect_unprobed(self, f, outcome) ==
    LET probe == <<Effect("session.run_cmd", <<"e","c","h","o"," ","O","p","e","n","C","l","a","w"," ","c","o","n","n","e","c","t","i","o","n"," ","t","e","s","t">>)>>
    IN  IF outcome.k = "exit"
        THEN [ret |-> TRUE,
              self |-> [self EXCEPT !.session = "set", !.connected = TRUE,
                                    !.server_cert_validation = "ignore"],
              fs |-> f, eff |-> probe]
        ELSE [ret |-> FALSE,
              self |-> [self EXCEPT !.session = "set",
                                    !.server_cert_validation = "ignore"],
              fs |-> f, eff |-> probe]

\* WinRMExecutor.connect; outcome: of the probe command run_cmd("echo ...")
winrm_connect(self, f, outcome) ==
    LET probe == <<Effect("session.run_cmd", <<"e","c","h","o"," ","O","p","e","n","C","l","a","w"," ","c","o","n","n","e","c","t","i","o","n"," ","t","e","s","t">>)>>
    IN  IF outcome.k = "exit" /\ outcome.rc = 0
        THEN [ret |-> TRUE,
              self |-> [self EXCEPT !.session = "set", !.connected = TRUE,
                                    !.server_cert_validation = "ignore"],
              fs |-> f, eff |-> probe]
        ELSE [ret |-> FALSE,
              self |-> [self EXCEPT !.session = "set",
                                    !.server_cert_validation = "ignore"],
              fs |-> f, eff |-> probe]

\* WinRMExecutor.disconnect
winrm_disconnect(self) == [self EXCEPT !.session = "None", !.connected = FALSE]

\* WinRMExecutor.execute_command that reports a non-zero exit status as a
\* failure
winrm_execute_command_by_status(self, f, command, outcome) ==
    LET sent == <<Effect("session.run_cmd", command)>>
    IN  IF ~self.connected \/ self.session = "None"
        THEN Step(Failure(self, <<"W","i","n","R","M"," ","n","o","t"," ","c","o","n","n","e","c","t","e","d">>), FALSE, <<>>, {}, f)
        ELSE IF is_dangerous_command(command)
        THEN Step(Failure(self, DangerousCommandDetected), FALSE, <<>>, {}, f)
        ELSE IF outcome.k = "raise"
        THEN Step(Failure(self, WinRMError_str), FALSE, sent, {}, f)
        ELSE IF outcome.k = "timeout"
        THEN Step(Failure(self, timed_out), FALSE, sent, {}, f)
        ELSE Step([ExecutionResult(self.name) EXCEPT
                       !.ok = outcome.rc = 0,
                       !.stdout = first2000(outcome.out),
                       !.stderr = first2000(outcome.err),
                       !.returncode = outcome.rc],
                  FALSE, sent, {}, f)

\* WinRMExecutor.execute_command; outcome is what became of the remote command
winrm_execute_command(self, f, command, outcome) ==
    LET sent == <<Effect("session.run_cmd", command)>>
    IN  IF ~self.connected \/ self.session = "None"
        THEN Step(Failure(self, <<"W","i","n","R","M"," ","n","o","t"," ","c","o","n","n","e","c","t","e","d">>), FALSE, <<>>, {}, f)
        ELSE IF is_dangerous_command(command)
        THEN Step(Failure(self, DangerousCommandDetected), FALSE, <<>>, {}, f)
        ELSE IF outcome.k = "raise"
        THEN Step(Failure(self, WinRMError_str), FALSE, sent, {}, f)
        ELSE IF outcome.k = "timeout"
        THEN Step(Failure(self, timed_out), FALSE, sent, {}, f)
        ELSE Step([ExecutionResult(self.name) EXCEPT
                       !.ok = TRUE,
                       !.stdout = first2000(outcome.out),
                       !.stderr = first2000(outcome.err),
                       !.returncode = outcome.rc],
                  FALSE, sent, {}, f)

\* WinRMExecutor.read_file
winrm_read_file(self, f, path, outcome) ==
    LET ps_path == replace(path, "/", "\\")
        command == <<"G","e","t","-","C","o","n","t","e","n","t"," ","-","P","a","t","h"," ","'">> \o ps_path \o <<"'"," ","-","R","a","w"," ","-","E","n","c","o","d","i","n","g"," ","U","T","F","8">>
    IN  With(winrm_execute_command(self, f, command, outcome), LAMBDA result :
            IF ~self.connected \/ self.session = "None"
            THEN Step(Failure(self, <<"W","i","n","R","M"," ","n","o","t"," ","c","o","n","n","e","c","t","e","d">>), FALSE, <<>>, {}, f)
            ELSE IF ~result.res.ok THEN result
            ELSE IF Len(result.res.stdout) > 2 * 1024 * 1024
            THEN Step(Failure(self, FileTooLarge), FALSE, result.eff, {}, f)
            ELSE Step([ExecutionResult(self.name) EXCEPT
                           !.ok = TRUE, !.content = result.res.stdout,
                           !.path = path],
                      FALSE, result.eff, {}, f))

\* ps_path and dir_path of write_file, lines 151-152
ps_path_of(path) == replace(path, "/", "\\")
dir_path_of(path) == join(butlast(split(ps_path_of(path), "\\")), <<"\\">>)

\* mkdir_cmd of write_file, line 155
mkdir_cmd_of(dir_path) ==
    <<"i","f"," ","(","!","(","T","e","s","t","-","P","a","t","h"," ","'">> \o dir_path
        \o <<"'",")",")"," ","{"," ","N","e","w","-","I","t","e","m"," ","-","I","t","e","m","T","y","p","e"," ","D","i","r","e","c","t","o","r","y"," ","-","F","o","r","c","e"," ","-","P","a","t","h"," ","'">>
        \o dir_path \o <<"'"," ","}">>

\* write_cmd of write_file, lines 158-163
write_cmd_of(ps_path, content_b64) ==
    <<"[","S","y","s","t","e","m",".","I","O",".","F","i","l","e","]",":",":","W","r","i","t","e","A","l","l","T","e","x","t","(","'">> \o ps_path \o <<"'",","," ">>
        \o <<"[","S","y","s","t","e","m",".","T","e","x","t",".","E","n","c","o","d","i","n","g","]",":",":","U","T","F","8",".","G","e","t","S","t","r","i","n","g","(","[","S","y","s","t","e","m",".","C","o","n","v","e","r","t","]",":",":","F","r","o","m","B","a","s","e","6","4","S","t","r","i","n","g","(","'">>
        \o content_b64 \o <<"'",")",")",")">>

\* WinRMExecutor.write_file that gives up when the directory step failed
winrm_write_file_stopping(self, f, path, content, outcome1, outcome2) ==
    LET ps_path == ps_path_of(path)
        dir_path == dir_path_of(path)
        dir_step == winrm_execute_command(self, f, mkdir_cmd_of(dir_path), outcome1)
        write_cmd == write_cmd_of(ps_path, b64encode(encode(content)))
    IN  With(winrm_execute_command(self, f, write_cmd, outcome2), LAMBDA result :
            IF ~self.connected \/ self.session = "None"
            THEN Step(Failure(self, <<"W","i","n","R","M"," ","n","o","t"," ","c","o","n","n","e","c","t","e","d">>), FALSE, <<>>, {}, f)
            ELSE IF dir_path # <<>> /\ ~dir_step.res.ok
            THEN Step(dir_step.res, FALSE, dir_step.eff, {}, f)
            ELSE IF ~result.res.ok
            THEN Step(result.res, FALSE,
                      (IF dir_path # <<>> THEN dir_step.eff ELSE <<>>) \o result.eff, {}, f)
            ELSE Step([ExecutionResult(self.name) EXCEPT !.ok = TRUE, !.path = path],
                      FALSE,
                      (IF dir_path # <<>> THEN dir_step.eff ELSE <<>>) \o result.eff, {}, f))

\* WinRMExecutor.write_file; outcomes of the mkdir and of the write command
winrm_write_file(self, f, path, content, outcome1, outcome2) ==
    LET ps_path == ps_path_of(path)
        dir_path == dir_path_of(path)
        made == IF dir_path # <<>>
                THEN winrm_execute_command(self, f, mkdir_cmd_of(dir_path), outcome1).eff
                ELSE <<>>
        write_cmd == write_cmd_of(ps_path, b64encode(encode(content)))
    IN  With(winrm_execute_command(self, f, write_cmd, outcome2), LAMBDA result :
        With(made \o result.eff, LAMBDA sent :
            IF ~self.connected \/ self.session = "None"
            THEN Step(Failure(self, <<"W","i","n","R","M"," ","n","o","t"," ","c","o","n","n","e","c","t","e","d">>), FALSE, <<>>, {}, f)
            ELSE IF ~result.res.ok
            THEN Step(result.res, FALSE, sent, {}, f)
            ELSE Step([ExecutionResult(self.name) EXCEPT !.ok = TRUE, !.path = path],
                      FALSE, sent, {}, f)))

\* WinRMExecutor.file_exists
winrm_file_exists(self, f, path, outcome) ==
    LET ps_path == replace(path, "/", "\\")
    IN  With(winrm_execute_command(self, f, <<"T","e","s","t","-","P","a","t","h"," ","'">> \o ps_path \o <<"'">>,
                                   outcome), LAMBDA result :
            IF ~self.connected \/ self.session = "None"
            THEN Step(ExecutionResult(self.name), FALSE, <<>>, {}, f)
            ELSE Step(ExecutionResult(self.name),
                      result.res.ok /\ lower(strip(result.res.stdout)) = <<"t","r","u","e">>,
                      result.eff, {}, f))

\* WinRMExecutor.list_directory
winrm_list_directory(self, f, path, outcome) ==
    LET ps_path == replace(path, "/", "\\")
        command == <<"G","e","t","-","C","h","i","l","d","I","t","e","m"," ","-","P","a","t","h"," ","'">> \o ps_path
                       \o <<"'"," ","|"," ","S","e","l","e","c","t","-","O","b","j","e","c","t"," ","N","a","m","e",","," ","M","o","d","e"," ","|"," ","F","o","r","m","a","t","-","T","a","b","l","e">>
    IN  With(winrm_execute_command(self, f, command, outcome), LAMBDA result :
            IF ~self.connected \/ self.session = "None"
            THEN Step(Failure(self, <<"W","i","n","R","M"," ","n","o","t"," ","c","o","n","n","e","c","t","e","d">>), FALSE, <<>>, {}, f)
            ELSE IF ~result.res.ok THEN result
            ELSE Step([ExecutionResult(self.name) EXCEPT
                           !.ok = TRUE, !.content = result.res.stdout, !.path = path],
                      FALSE, result.eff, {}, f))

---------------------------------------------------------------------------
(* Bounded inputs                                                          *)

\* components of a requested path, number of text fragments of a command
MaxDepth == 2
MaxFrags == 2

Names == {n_home, n_homework, n_etc, n_x, n_lnk, DotDot}

\* "/a/b" for every sequence of at most MaxDepth names, and three paths of
\* another shape: a backslash in a name, and two relative paths
p_bs      == <<"/","h","o","m","e","\\","x">>
p_rel     == <<"x">>
p_relup   == <<".",".","/","e","t","c","/","x">>
ReqPaths ==
    {str(parts) : parts \in UNION {[1..n -> Names] : n \in 0..MaxDepth}}
        \cup {p_bs, p_rel, p_relup}

p_root     == <<"/">>
p_home     == <<"/","h","o","m","e">>
p_home_x   == <<"/","h","o","m","e","/","x">>
p_homework == <<"/","h","o","m","e","w","o","r","k">>
p_etc      == <<"/","e","t","c">>
p_etc_x    == <<"/","e","t","c","/","x">>
p_home_lnk == <<"/","h","o","m","e","/","l","n","k">>

\* allowed_roots configurations
RootConfigs == { <<p_home>>, <<p_root>>, <<p_rel, p_etc>> }

\* blocked_patterns configurations
pat_etc == <<"*","/","e","t","c","/","*">>
PatternConfigs == { <<>>, <<pat_etc>> }

\* the read ceiling of read_file: 2MB
Ceiling == 2 * 1024 * 1024

\* the filesystems a run may start from: no link, a link to a directory
\* outside /home, a link to a file outside /home, a link to itself
FsPlain ==
    (<<>> :> Dir) @@ (<<n_home>> :> Dir)
    @@ (<<n_home, n_x>> :> File(<<"c","0">>, 2))
    @@ (<<n_home, n_big>> :> File(<<>>, Ceiling + 1))
    @@ (<<n_home, n_max>> :> File(<<>>, Ceiling))
    @@ (<<n_homework>> :> File(<<"c","0">>, 2))
    @@ (<<n_bs>> :> File(<<"c","0">>, 2))
    @@ (<<n_etc>> :> Dir)
    @@ (<<n_etc, n_x>> :> File(<<"s","e","c","r","e","t">>, 6))
FsLinkDir  == FsPlain @@ (<<n_home, n_lnk>> :> Link(<<n_etc>>))
FsLinkFile == FsPlain @@ (<<n_home, n_lnk>> :> Link(<<n_etc, n_x>>))
FsLoop     == FsPlain @@ (<<n_home, n_lnk>> :> Link(<<n_home, n_lnk>>))
InitialFileSystems == {FsPlain, FsLinkDir, FsLinkFile, FsLoop}

\* command texts: concatenations of at most MaxFrags fragments
Fragments ==
    { <<"r","m"," ","-","r","f"," ","/">>,
      <<"R","M"," ","-","R","F"," ","/">>,
      <<"s","u","d","o"," ">>,
      <<"l","s"," ","-","l","a"," ","/","t","m","p">>,
      <<"r","m"," ","-","r","f">>,
      <<" ","/">>,
      <<"c","h","m","o","d"," ","-","r"," ","7","7","7"," ","/">>,
      <<"M","k","F","s">>,
      <<"e","c","h","o"," ">> }

RECURSIVE concat(_)
concat(pieces) ==
    IF pieces = <<>> THEN <<>> ELSE Head(pieces) \o concat(Tail(pieces))

NoPathOut == [fn |-> "none", status |-> "none", path |-> <<>>, verdict |-> FALSE]
NoPathIn  == [path |-> <<>>, must_exist |-> FALSE, roots |-> <<>>, patterns |-> <<>>]
NoCmdIn   == [text |-> <<>>, inner |-> <<>>]
NoCmdOut  == [done |-> FALSE, whole |-> FALSE, inner |-> FALSE, upper |-> FALSE]

\* LocalExecutor(config), SSHExecutor(name, config), WinRMExecutor(name,
\* config) after __init__: not connected, no handle; cert_validation: the
\* setting of the machine's winrm section; server_cert_validation: the
\* argument the winrm.Session was created with
SshConfig(private_key_path, password) ==
    [private_key_path |-> private_key_path, password |-> password]

LocalExecutor(allowed_roots, blocked_patterns) ==
    [kind |-> "local", name |-> <<"l","o","c","a","l">>, connected |-> FALSE,
     client |-> "None", sftp |-> "None", session |-> "None",
     ssh_config |-> SshConfig(None, None),
     cert_validation |-> FALSE, server_cert_validation |-> "None",
     allowed_roots |-> allowed_roots, blocked_patterns |-> blocked_patterns]

SSHExecutor(target, allowed_roots, blocked_patterns) ==
    [kind |-> "ssh", name |-> target, connected |-> FALSE,
     client |-> "None", sftp |-> "None", session |-> "None",
     ssh_config |-> SshConfig(None, <<"p","w">>),
     cert_validation |-> FALSE, server_cert_validation |-> "None",
     allowed_roots |-> allowed_roots, blocked_patterns |-> blocked_patterns]

WinRMExecutor(target, allowed_roots, blocked_patterns) ==
    [kind |-> "winrm", name |-> target, connected |-> FALSE,
     client |-> "None", sftp |-> "None", session |-> "None",
     ssh_config |-> SshConfig(None, None),
     cert_validation |-> FALSE, server_cert_validation |-> "None",
     allowed_roots |-> allowed_roots, blocked_patterns |-> blocked_patterns]

p_home_new_f == <<"/","h","o","m","e","/","n","e","w","/","f">>

\* the ssh section of a machine: a key file that is there (p_home_x), one
\* that is not (p_home_new_f) or none, with and without a password
SshConfigs ==
    { SshConfig(key, password) :
        key \in {None, p_home_x, p_home_new_f}, password \in {None, <<"p","w">>} }

\* the executors a run may be about
Executors ==
    { LocalExecutor(<<p_home>>, <<pat_etc>>),
      LocalExecutor(<<p_root>>, <<>>),
      WinRMExecutor(<<"w","i","n">>, <<p_home>>, <<pat_etc>>),
      [WinRMExecutor(<<"w","i","n">>, <<p_home>>, <<pat_etc>>)
          EXCEPT !.cert_validation = TRUE] }
    \cup { [SSHExecutor(<<"w","e","b">>, <<p_home>>, <<pat_etc>>)
               EXCEPT !.ssh_config = ssh_config] : ssh_config \in SshConfigs }

\* the commands, paths and contents of the calls
ExecCommands ==
    { <<"l","s"," ","-","l","a">>, <<"r","m"," ","-","r","f"," ","/","t","m","p","/","x">>, <<"s","u","d","o"," ","M","K","F","S"," ","/","d","e","v","/","s","d","a">> }

p_home_big   == <<"/","h","o","m","e","/","b","i","g">>
p_home_max   == <<"/","h","o","m","e","/","m","a","x">>
p_home_up    == <<"/","h","o","m","e","/",".",".">>
ExecPaths ==
    { p_home_x, p_etc_x, p_home_lnk, p_home_new_f, p_home_up, p_rel, p_home_big,
      p_home_max }
WritePaths == { p_etc_x, p_home_lnk, p_home_new_f }
\* "/a;id/';id;'": a path whose text holds ';' and "'"
p_semi_quote == <<"/","a",";","i","d","/","'",";","i","d",";","'">>
\* with a path that has no directory part, and one with ';' and "'"
RemoteWritePaths == WritePaths \cup { p_rel, p_semi_quote }
\* the base64 text of "2Al" is "MkFs"
Contents == { <<"h","i">>, <<"d","a","t","a">>, <<"2","A","l">> }

\* what the world outside answers to a command or a transfer.  A stream is
\* given by its length n and its first characters: all of them when there are
\* at most Shown, the first Shown of them otherwise
Shown == 2001
LongText == <<>> \o [i \in 1..Shown |-> "a"]
Exit(out, err, rc) ==
    [k |-> "exit", out |-> out, err |-> err, rc |-> rc, n |-> Len(out),
     children |-> 0]
\* no answer in time; a local command is then still running, as the shell
\* alone (it ran the command in its own place) or the shell and its children
StillRunning(children) ==
    [k |-> "timeout", out |-> <<>>, err |-> <<>>, rc |-> 0, n |-> 0,
     children |-> children]
Timeout == StillRunning(0)
Raise   ==
    [k |-> "raise", out |-> <<>>, err |-> <<>>, rc |-> 0, n |-> 0, children |-> 0]
\* a stream of n characters, n >= Shown, with as much on stderr as is shown
Long(n) ==
    [k |-> "exit", out |-> LongText, err |-> LongText, rc |-> 0, n |-> n,
     children |-> 0]
Huge    == Long(Ceiling + 1)
CmdOutcomes ==
    { Exit(<<"o","k","\n">>, <<>>, 0), Exit(<<>>, <<"n","o","t"," ","f","o","u","n","d">>, 1),
      Exit(<<" ","T","r","u","e","\r","\n">>, <<>>, 0), Timeout, Raise,
      Long(Ceiling), Huge, StillRunning(2) }
ReadOutcomes == CmdOutcomes
Listings ==
    { <<>>,
      <<[filename |-> n_x, isdir |-> FALSE], [filename |-> n_etc, isdir |-> TRUE]>> }

\* what `Get-ChildItem | Select-Object Name, Mode | Format-Table` prints for
\* a directory of these entries: nothing for an empty one, else a header, a
\* rule and one row per entry (the padding of the columns is left out)
FormatTable(entries) ==
    IF entries = <<>> THEN <<>>
    ELSE join(<< <<"N","a","m","e"," ","M","o","d","e">>,
                 <<"-","-","-","-"," ","-","-","-","-">> >>
              \o [i \in 1..Len(entries) |->
                     entries[i].filename \o <<" ">> \o
                     (IF entries[i].isdir THEN <<"d","-","-","-","-","-">>
                      ELSE <<"-","a","-","-","-","-">>)],
              <<"\r","\n">>) \o <<"\r","\n">>

\* what the remote shell can answer to the command of list_directory
ListOutcomes ==
    CmdOutcomes \cup {Exit(FormatTable(entries), <<>>, 0) : entries \in Listings}

\* SpecPath and SpecCmd have no executor
NoExecutor == [kind |-> "none"]
NoCall ==
    [op |-> "none", arg |-> <<>>, data |-> <<>>, answer |-> <<>>,
     pre |-> NoExecutor,
     res |-> ExecutionResult(<<>>), ret |-> FALSE, eff |-> <<>>, touched |-> {},
     running |-> {}, raised |-> FALSE]
NoHistory == [disconnected |-> FALSE]

\* the specifications without a ConnectionManager, without concurrent callers
NoManager == [pc |-> "none"]
NoLoop == [running |-> "none"]

---------------------------------------------------------------------------
(* SpecPath: SecurityPolicy's path functions applied to bounded inputs     *)

InitPath ==
    /\ fs \in InitialFileSystems
    /\ pathIn \in [path : ReqPaths, must_exist : BOOLEAN,
                   roots : RootConfigs, patterns : PatternConfigs]
    /\ pathOut = NoPathOut
    /\ cmdIn = NoCmdIn
    /\ cmdOut = NoCmdOut
    /\ ex = NoExecutor
    /\ last = NoCall
    /\ ghost = NoHistory
    /\ mgr = NoManager
    /\ loop = NoLoop

ResolveSafePath ==
    /\ pathOut.fn = "none"
    /\ LET r == resolve_safe_path(fs, pathIn.path, pathIn.must_exist,
                                  pathIn.roots, pathIn.patterns)
       IN  pathOut' = [fn |-> "resolve_safe_path", status |-> r.status,
                       path |-> r.path, verdict |-> r.status = "ok"]
    /\ UNCHANGED <<fs, pathIn, cmdIn, cmdOut, execVars, sysVars>>

\* is_allowed called with the absolute path Path(pathIn.path)
IsAllowed ==
    /\ pathOut.fn = "none"
    /\ PathOf(pathIn.path).abs
    /\ LET p == PathOf(pathIn.path).parts
       IN  pathOut' = [fn |-> "is_allowed", status |-> "none", path |-> p,
                       verdict |-> is_allowed(fs, p, pathIn.roots)]
    /\ UNCHANGED <<fs, pathIn, cmdIn, cmdOut, execVars, sysVars>>

\* is_blocked called with the absolute path Path(pathIn.path)
IsBlocked ==
    /\ pathOut.fn = "none"
    /\ PathOf(pathIn.path).abs
    /\ LET p == PathOf(pathIn.path).parts
       IN  pathOut' = [fn |-> "is_blocked", status |-> "none", path |-> p,
                       verdict |-> is_blocked(p, pathIn.patterns)]
    /\ UNCHANGED <<fs, pathIn, cmdIn, cmdOut, execVars, sysVars>>

NextPath == ResolveSafePath \/ IsAllowed \/ IsBlocked

SpecPath == InitPath /\ [][NextPath]_vars

---------------------------------------------------------------------------
(* SpecCmd: is_dangerous_command applied to bounded command texts          *)

InitCmd ==
    /\ fs = FsPlain
    /\ pathIn = NoPathIn
    /\ pathOut = NoPathOut
    /\ \E n \in 1..MaxFrags : \E pieces \in [1..n -> Fragments] :
       \E lo \in 1..n : \E hi \in lo..n :
           cmdIn = [text |-> concat(pieces), inner |-> concat(SubSeq(pieces, lo, hi))]
    /\ cmdOut = NoCmdOut
    /\ ex = NoExecutor
    /\ last = NoCall
    /\ ghost = NoHistory
    /\ mgr = NoManager
    /\ loop = NoLoop

\* is_dangerous_command applied to the text, to a part of it and to its
\* upper-cased form
IsDangerousCommand ==
    /\ ~cmdOut.done
    /\ cmdOut' = [done  |-> TRUE,
                  whole |-> is_dangerous_command(cmdIn.text),
                  inner |-> is_dangerous_command(cmdIn.inner),
                  upper |-> is_dangerous_command(upper(cmdIn.text))]
    /\ UNCHANGED <<fs, pathIn, pathOut, cmdIn, execVars, sysVars>>

NextCmd == IsDangerousCommand

SpecCmd == InitCmd /\ [][NextCmd]_vars

---------------------------------------------------------------------------
(* Spec: one executor and the calls a caller awaits on it, one at a time,   *)
(* in any order                                                            *)

Init ==
    /\ ex \in Executors
    /\ fs \in (IF ex.kind = "local" THEN InitialFileSystems ELSE {FsPlain})
    /\ last = NoCall
    /\ ghost = NoHistory
    /\ mgr = NoManager
    /\ loop = NoLoop
    /\ pathIn = NoPathIn
    /\ pathOut = NoPathOut
    /\ cmdIn = NoCmdIn
    /\ cmdOut = NoCmdOut

\* the record of a call that returned `step`
Returned(op, arg, data, answer, step) ==
    [op |-> op, arg |-> arg, data |-> data, answer |-> answer, pre |-> ex,
     res |-> step.res, ret |-> step.ret, eff |-> step.eff,
     touched |-> step.touched, running |-> step.running,
     raised |-> step.raised]

\* the call returned `step` after the world outside answered `answer`: the
\* caller holds the result, the filesystem is the one the method left behind
Return(op, arg, data, answer, step) ==
    /\ last' = Returned(op, arg, data, answer, step)
    /\ fs' = step.fs

\* connect() returned `c`
ReturnConnect(c) ==
    /\ ex' = c.self
    /\ fs' = c.fs
    /\ last' = [NoCall EXCEPT !.op = "connect", !.pre = ex,
                              !.ret = c.ret, !.eff = c.eff]

\* await executor.connect()
Connect ==
    /\ last.op = "none"
    /\ \/ /\ ex.kind = "local"
          /\ \E raises \in BOOLEAN :
                ReturnConnect(local_connect(ex, fs, raises))
       \/ /\ ex.kind = "ssh"
          /\ \E outcome \in {"ok", "key_raises", "connect_raises",
                             "open_sftp_raises"} :
                ReturnConnect(ssh_connect(ex, fs, outcome))
       \/ /\ ex.kind = "winrm"
          /\ \E outcome \in CmdOutcomes :
                ReturnConnect(winrm_connect(ex, fs, outcome))
    /\ UNCHANGED <<ghost, polVars, sysVars>>

\* await executor.disconnect()
Disconnect ==
    /\ last.op = "none"
    /\ \E raises \in BOOLEAN :
          ex' = CASE ex.kind = "local" -> local_disconnect(ex)
                  [] ex.kind = "ssh"   -> ssh_disconnect(ex, raises)
                  [] ex.kind = "winrm" -> winrm_disconnect(ex)
    /\ last' = [NoCall EXCEPT !.op = "disconnect", !.pre = ex]
    /\ ghost' = [ghost EXCEPT !.disconnected = TRUE]
    /\ UNCHANGED <<fs, polVars, sysVars>>

\* await executor.execute_command(command)
ExecuteCommand ==
    /\ last.op = "none"
    /\ \E command \in ExecCommands : \E outcome \in CmdOutcomes :
          Return("execute_command", command, <<>>, outcome,
                 CASE ex.kind = "local" ->
                          local_execute_command(ex, fs, command, outcome)
                   [] ex.kind = "ssh" ->
                          ssh_execute_command(ex, fs, command, outcome)
                   [] ex.kind = "winrm" ->
                          winrm_execute_command(ex, fs, command, outcome))
    /\ UNCHANGED <<ex, ghost, polVars, sysVars>>

\* await executor.read_file(path)
ReadFile ==
    /\ last.op = "none"
    /\ \E path \in ExecPaths :
          \/ /\ ex.kind = "local"
             /\ \E raises \in BOOLEAN :
                   Return("read_file", path, <<>>, raises,
                          local_read_file(ex, fs, path, raises))
          \/ /\ ex.kind = "ssh"
             /\ \E outcome \in ReadOutcomes :
                   Return("read_file", path, <<>>, outcome,
                          ssh_read_file(ex, fs, path, outcome))
          \/ /\ ex.kind = "winrm"
             /\ \E outcome \in CmdOutcomes :
                   Return("read_file", path, <<>>, outcome,
                          winrm_read_file(ex, fs, path, outcome))
    /\ UNCHANGED <<ex, ghost, polVars, sysVars>>

\* await executor.write_file(path, content)
WriteFile ==
    /\ last.op = "none"
    /\ \E path \in RemoteWritePaths : \E content \in Contents :
          \/ /\ ex.kind = "local"
             /\ path \in WritePaths
             /\ \E raises \in BOOLEAN :
                   Return("write_file", path, content, raises,
                          local_write_file(ex, fs, path, content, raises))
          \/ /\ ex.kind = "ssh"
             /\ \E outcome \in {Exit(<<>>, <<>>, 0), Raise} : \E raises \in BOOLEAN :
                   Return("write_file", path, content, <<outcome, raises>>,
                          ssh_write_file(ex, fs, path, content, outcome, raises))
          \/ /\ ex.kind = "winrm"
             /\ \E outcome1 \in {Exit(<<>>, <<>>, 0), Exit(<<>>, <<"n","o">>, 1), Raise} :
                \E outcome2 \in CmdOutcomes :
                   Return("write_file", path, content, <<outcome1, outcome2>>,
                          winrm_write_file(ex, fs, path, content, outcome1, outcome2))
    /\ UNCHANGED <<ex, ghost, polVars, sysVars>>

\* await executor.file_exists(path)
FileExists ==
    /\ last.op = "none"
    /\ \E path \in ExecPaths :
          \/ /\ ex.kind = "local"
             /\ Return("file_exists", path, <<>>, <<>>,
                          local_file_exists(ex, fs, path))
          \/ /\ ex.kind = "ssh"
             /\ \E raises \in BOOLEAN :
                   Return("file_exists", path, <<>>, raises,
                          ssh_file_exists(ex, fs, path, raises))
          \/ /\ ex.kind = "winrm"
             /\ \E outcome \in CmdOutcomes :
                   Return("file_exists", path, <<>>, outcome,
                          winrm_file_exists(ex, fs, path, outcome))
    /\ UNCHANGED <<ex, ghost, polVars, sysVars>>

\* await executor.list_directory(path)
ListDirectory ==
    /\ last.op = "none"
    /\ \E path \in ExecPaths :
          \/ /\ ex.kind = "local"
             /\ \E backwards \in BOOLEAN :
                   Return("list_directory", path, <<>>, backwards,
                          local_list_directory(ex, fs, path, backwards))
          \/ /\ ex.kind = "ssh"
             /\ \E entries \in Listings : \E raises \in BOOLEAN :
                   Return("list_directory", path, <<>>, <<entries, raises>>,
                          ssh_list_directory(ex, fs, path, entries, raises))
          \/ /\ ex.kind = "winrm"
             /\ \E outcome \in ListOutcomes :
                   Return("list_directory", path, <<>>, outcome,
                          winrm_list_directory(ex, fs, path, outcome))
    /\ UNCHANGED <<ex, ghost, polVars, sysVars>>

\* the caller has taken what the call returned and may call again
Taken ==
    /\ last.op # "none"
    /\ last' = NoCall
    /\ UNCHANGED <<fs, ex, ghost, polVars, sysVars>>

Next ==
    \/ Taken
    \/ Connect
    \/ Disconnect
    \/ ExecuteCommand
    \/ ReadFile
    \/ WriteFile
    \/ FileExists
    \/ ListDirectory

Spec == Init /\ [][Next]_vars

---------------------------------------------------------------------------
(* SpecManager: ConnectionManager.initialize() (core/connection.py), one    *)
(* step for the local executor, one for each configured machine, one for   *)
(* the end of the method                                                   *)

\* number of entries of config.machines
MaxMachines == 2

\* number of initialize() calls on one manager
MaxRuns == 2

m_local == <<"l","o","c","a","l">>
m_web   == <<"w","e","b">>
m_win   == <<"w","i","n">>
m_db    == <<"d","b">>

\* MachineConfig(name=..., type=..., is_default=..., ssh=... / winrm=...);
\* has_config: the ssh (winrm) section of an ssh (winrm) machine is present
MachineConfig(nm, type, is_default, has_config) ==
    [name |-> nm, type |-> type, is_default |-> is_default,
     has_config |-> has_config]

\* the machines a configuration may list: the local machine, remote machines
\* of both types, default or not, two machines sharing a name, a machine
\* without its section, a remote machine named "local"
Machines ==
    { MachineConfig(m_local, "local", TRUE, FALSE),
      MachineConfig(m_local, "local", FALSE, FALSE),
      MachineConfig(m_db, "ssh", TRUE, TRUE),
      MachineConfig(m_web, "ssh", FALSE, TRUE),
      MachineConfig(m_win, "winrm", FALSE, TRUE),
      MachineConfig(m_win, "ssh", FALSE, FALSE),
      MachineConfig(m_local, "ssh", FALSE, TRUE) }

Configs == UNION {[1..n -> Machines] : n \in 0..MaxMachines}

\* what the caller asked the manager last, and what came back
Asked(op, arg, ret, raised) ==
    [op |-> op, arg |-> arg, ret |-> ret, raised |-> raised]

\* ConnectionManager(config) after __init__; pc, i: where initialize() is;
\* local_ok, remote_ok: history, the connect() calls of this initialize()
\* that returned true; ever_ok: those of every initialize() so far; runs: the
\* initialize() calls so far; asked: the last call on the manager; built: the
\* executor objects constructed so far; closed: the objects shutdown() has
\* called disconnect() on; escaped: one of these calls raised; attempts: the
\* names of the executors whose connect() this initialize() has awaited;
\* live: the objects whose connect() returned true and on which disconnect()
\* has not been called
ConnectionManager(config) ==
    [config |-> config, executors |-> <<>>, default_machine |-> m_local,
     initialized |-> FALSE, pc |-> "created", i |-> 0,
     local_ok |-> FALSE, remote_ok |-> {}, ever_ok |-> {}, runs |-> 0,
     built |-> 0, closed |-> {}, escaped |-> FALSE, attempts |-> <<>>,
     live |-> {},
     asked |-> Asked("none", <<>>, <<>>, FALSE)]

\* the executor object: the id-th object constructed
instance(executor, id) == [id |-> id] @@ executor

\* self.executors[nm] = executor
put(executors, nm, executor) ==
    [k \in DOMAIN executors \cup {nm} |->
        IF k = nm THEN executor ELSE executors[k]]

\* the first step of initialize() that gives up the remote machines when the
\* local connect() returned false
initialize_local_required(self, c) ==
    [self EXCEPT
        !.executors = IF c.ret
                      THEN put(self.executors, m_local,
                               instance(c.self, self.built + 1))
                      ELSE self.executors,
        !.built = self.built + 1,
        !.live = IF c.ret THEN self.live \cup {self.built + 1} ELSE self.live,
        !.local_ok = c.ret,
        !.remote_ok = {},
        !.attempts = <<m_local>>,
        !.runs = self.runs + 1,
        !.asked = Asked("initialize", <<>>, <<>>, FALSE),
        !.pc = "machines",
        !.i = IF c.ret THEN 1 ELSE Len(self.config) + 1]

\* initialize(), lines 42-55: the local executor; c is what connect() did
initialize_local(self, c) ==
    [self EXCEPT
        !.executors = IF c.ret
                      THEN put(self.executors, m_local,
                               instance(c.self, self.built + 1))
                      ELSE self.executors,
        !.built = self.built + 1,
        !.live = IF c.ret THEN self.live \cup {self.built + 1} ELSE self.live,
        !.local_ok = c.ret,
        !.remote_ok = {},
        !.attempts = <<m_local>>,
        !.runs = self.runs + 1,
        !.asked = Asked("initialize", <<>>, <<>>, FALSE),
        !.pc = "machines",
        !.i = 1]

\* one iteration of the loop of initialize() that adds every executor it
\* built, whatever connect() returned
initialize_machine_unchecked(self, machine, c) ==
    IF machine.type = "local"
    THEN [self EXCEPT
             !.default_machine = IF machine.is_default THEN machine.name
                                 ELSE self.default_machine,
             !.i = self.i + 1]
    ELSE IF ~machine.has_config
    THEN [self EXCEPT !.i = self.i + 1]
    ELSE IF c.raised
    THEN [self EXCEPT !.built = self.built + 1,
                      !.attempts = Append(self.attempts, machine.name),
                      !.i = self.i + 1]
    ELSE [self EXCEPT
             !.executors = put(self.executors, machine.name,
                               instance(c.self, self.built + 1)),
             !.built = self.built + 1,
             !.attempts = Append(self.attempts, machine.name),
             !.live = IF c.ret THEN self.live \cup {self.built + 1} ELSE self.live,
             !.default_machine = IF machine.is_default THEN machine.name
                                 ELSE self.default_machine,
             !.remote_ok = IF c.ret THEN self.remote_ok \cup {machine.name}
                           ELSE self.remote_ok,
             !.ever_ok = IF c.ret THEN self.ever_ok \cup {machine.name}
                         ELSE self.ever_ok,
             !.i = self.i + 1]

\* one iteration of the loop of initialize(), lines 58-90; c is what building
\* the executor and its connect() did: raised, or returned c.ret
initialize_machine(self, machine, c) ==
    IF machine.type = "local"
    THEN [self EXCEPT
             !.default_machine = IF machine.is_default THEN machine.name
                                 ELSE self.default_machine,
             !.i = self.i + 1]
    ELSE IF ~machine.has_config
    THEN [self EXCEPT !.i = self.i + 1]
    ELSE IF c.raised \/ ~c.ret
    THEN [self EXCEPT !.built = self.built + 1,
                      !.attempts = Append(self.attempts, machine.name),
                      !.i = self.i + 1]
    ELSE [self EXCEPT
             !.executors = put(self.executors, machine.name,
                               instance(c.self, self.built + 1)),
             !.built = self.built + 1,
             !.attempts = Append(self.attempts, machine.name),
             !.live = self.live \cup {self.built + 1},
             !.default_machine = IF machine.is_default THEN machine.name
                                 ELSE self.default_machine,
             !.remote_ok = self.remote_ok \cup {machine.name},
             !.ever_ok = self.ever_ok \cup {machine.name},
             !.i = self.i + 1]

\* initialize(), lines 92-93
initialize_end(self) ==
    [self EXCEPT !.initialized = TRUE, !.pc = "initialized"]

\* the objects of the pool
objects(self) == {self.executors[nm].id : nm \in DOMAIN self.executors}

\* shutdown() without the try around disconnect(): the first disconnect()
\* that raises ends it
shutdown_aborting(self, escapes) ==
    IF \E nm \in DOMAIN self.executors : escapes[nm]
    THEN [self EXCEPT !.escaped = TRUE,
                      !.asked = Asked("shutdown", <<>>, <<>>, TRUE)]
    ELSE [self EXCEPT !.executors = <<>>, !.initialized = FALSE,
                      !.pc = "created",
                      !.closed = self.closed \cup objects(self),
                      !.live = self.live \ objects(self),
                      !.asked = Asked("shutdown", <<>>, <<>>, FALSE)]

\* shutdown(), lines 160-174: disconnect() is called on every executor of
\* the pool, escapes[nm]: the call on the executor of nm raised; the pool is
\* cleared; default_machine stays
shutdown(self, escapes) ==
    [self EXCEPT !.executors = <<>>, !.initialized = FALSE, !.pc = "created",
                 !.closed = self.closed \cup objects(self),
                 !.live = self.live \ objects(self),
                 !.escaped = \E nm \in DOMAIN self.executors : escapes[nm],
                 !.asked = Asked("shutdown", <<>>, <<>>, FALSE)]

\* get_default_machine(), lines 121-123: what the method leaves of the
\* manager, and what it returns
get_default_machine_local(self) ==
    [self |-> self, ret |-> m_local, raised |-> FALSE]

get_default_machine(self) ==
    [self |-> self, ret |-> self.default_machine, raised |-> FALSE]


\* ValueError(f"Machine '{name}' not available. Available: {available}"):
\* the name asked for and the names of the pool
MachineNotAvailable(nm, available) ==
    [error |-> "ValueError", name |-> nm, available |-> available]

\* get_executor that takes 'local' when no name is given
get_executor_local(self, machine_name) ==
    LET nm == IF machine_name \in {None, <<>>} THEN m_local
              ELSE machine_name
    IN  IF nm \notin DOMAIN self.executors
        THEN [self |-> self, raised |-> TRUE,
              ret |-> MachineNotAvailable(nm, DOMAIN self.executors)]
        ELSE [self |-> self, raised |-> FALSE, ret |-> self.executors[nm]]

\* get_executor() that makes the machine it resolved the default machine
get_executor_remembering(self, machine_name) ==
    LET nm == IF machine_name \in {None, <<>>} THEN self.default_machine
              ELSE machine_name
    IN  IF nm \notin DOMAIN self.executors
        THEN [self |-> self, raised |-> TRUE,
              ret |-> MachineNotAvailable(nm, DOMAIN self.executors)]
        ELSE [self |-> [self EXCEPT !.default_machine = nm],
              raised |-> FALSE, ret |-> self.executors[nm]]

\* get_executor(machine_name), lines 95-115; machine_name is a name, "" or
\* None
get_executor(self, machine_name) ==
    LET nm == IF machine_name \in {None, <<>>} THEN self.default_machine
              ELSE machine_name
    IN  IF nm \notin DOMAIN self.executors
        THEN [self |-> self, raised |-> TRUE,
              ret |-> MachineNotAvailable(nm, DOMAIN self.executors)]
        ELSE [self |-> self, raised |-> FALSE, ret |-> self.executors[nm]]

\* the executor initialize() builds for a remote machine
executor_of(machine) ==
    IF machine.type = "ssh"
    THEN SSHExecutor(machine.name, <<p_home>>, <<pat_etc>>)
    ELSE WinRMExecutor(machine.name, <<p_home>>, <<pat_etc>>)

\* what building the executor of `machine` and awaiting its connect() can do
Connects(machine, f) ==
    IF machine.type = "ssh"
    THEN { [raised |-> FALSE, ret |-> c.ret, self |-> c.self] :
             c \in { ssh_connect(executor_of(machine), f, outcome) :
                       outcome \in {"ok", "connect_raises", "open_sftp_raises"} } }
         \cup { [raised |-> TRUE, ret |-> FALSE, self |-> executor_of(machine)] }
    ELSE { [raised |-> FALSE, ret |-> c.ret, self |-> c.self] :
             c \in { winrm_connect(executor_of(machine), f, outcome) :
                       outcome \in {Exit(<<>>, <<>>, 0), Exit(<<>>, <<>>, 1), Raise} } }
         \cup { [raised |-> TRUE, ret |-> FALSE, self |-> executor_of(machine)] }

InitManager ==
    /\ mgr \in {ConnectionManager(config) : config \in Configs}
    /\ fs = FsPlain
    /\ ex = NoExecutor
    /\ last = NoCall
    /\ ghost = NoHistory
    /\ loop = NoLoop
    /\ pathIn = NoPathIn
    /\ pathOut = NoPathOut
    /\ cmdIn = NoCmdIn
    /\ cmdOut = NoCmdOut

\* connected = await local_executor.connect() and the lines around it
InitializeLocal ==
    /\ mgr.pc = "created"
    /\ \E raises \in BOOLEAN :
          With(local_connect(LocalExecutor(<<p_home>>, <<pat_etc>>), fs, raises),
               LAMBDA c : /\ mgr' = initialize_local(mgr, c)
                          /\ fs' = c.fs)
    /\ UNCHANGED <<polVars, execVars, loop>>

\* one iteration of the loop over config.machines
InitializeMachine ==
    /\ mgr.pc = "machines"
    /\ mgr.i <= Len(mgr.config)
    /\ \E c \in Connects(mgr.config[mgr.i], fs) :
          mgr' = initialize_machine(mgr, mgr.config[mgr.i], c)
    /\ UNCHANGED <<fs, polVars, execVars, loop>>

\* the loop is over: self._initialized = True
InitializeEnd ==
    /\ mgr.pc = "machines"
    /\ mgr.i > Len(mgr.config)
    /\ mgr' = initialize_end(mgr)
    /\ UNCHANGED <<fs, polVars, execVars, loop>>

\* await conn_manager.shutdown() after initialize() has returned, another
\* initialize() to follow
Shutdown ==
    /\ mgr.pc = "initialized"
    /\ mgr.runs < MaxRuns
    /\ \E escapes \in [DOMAIN mgr.executors -> BOOLEAN] :
          mgr' = shutdown(mgr, escapes)
    /\ UNCHANGED <<fs, polVars, execVars, loop>>

\* the calls that only read the manager
Readers ==
    {"get_executor", "list_machines", "get_default_machine", "is_initialized",
     "get_executor_stats", "test_all_connections"}

\* the manager is between two of its coroutines: the caller may ask it. A
\* read leaves of the manager only its answer, so a call made on the answer
\* of a read is the call made on the state before that read
Idle ==
    /\ mgr.pc \in {"created", "initialized"}
    /\ mgr.asked.op \notin Readers

\* the caller's call returned q
Answered(op, arg, q) ==
    mgr' = [q.self EXCEPT !.asked = Asked(op, arg, q.ret, q.raised)]

GetDefaultMachine ==
    /\ Idle
    /\ Answered("get_default_machine", <<>>, get_default_machine(mgr))
    /\ UNCHANGED <<fs, polVars, execVars, loop>>

\* await executor.execute_command(command)
execute_command(self, f, command, outcome) ==
    CASE self.kind = "local" -> local_execute_command(self, f, command, outcome)
      [] self.kind = "ssh"   -> ssh_execute_command(self, f, command, outcome)
      [] self.kind = "winrm" -> winrm_execute_command(self, f, command, outcome)

echo_test == <<"e","c","h","o"," ","t","e","s","t">>

\* what a probe met: the outcome of its command, or an exception that came
\* out of execute_command itself
Probe(escapes, outcome) == [escapes |-> escapes, outcome |-> outcome]

ProbeAnswers ==
    { Probe(FALSE, Exit(<<"t","e","s","t","\n">>, <<>>, 0)),
      Probe(FALSE, Timeout), Probe(TRUE, Raise) }

\* what the probe of the executor gave: it raised, or returned result.ok
probed(executor, f, answer) ==
    IF answer.escapes THEN [raised |-> TRUE, ok |-> FALSE]
    ELSE [raised |-> FALSE,
          ok |-> execute_command(executor, f, echo_test, answer.outcome).res.ok]

\* test_all_connections that reports only the machines that answered
test_all_connections_answering(self, probes) ==
    [self |-> self, raised |-> FALSE,
     ret |-> [nm \in {k \in DOMAIN self.executors : probes[k].ok} |-> TRUE]]

\* test_all_connections that marks as disconnected the executors whose probe
\* failed
test_all_connections_marking(self, probes) ==
    [self |-> [self EXCEPT
                  !.executors = [nm \in DOMAIN self.executors |->
                      IF probes[nm].raised \/ ~probes[nm].ok
                      THEN [self.executors[nm] EXCEPT !.connected = FALSE]
                      ELSE self.executors[nm]]],
     raised |-> FALSE,
     ret |-> [nm \in DOMAIN self.executors |->
                 IF probes[nm].raised THEN FALSE ELSE probes[nm].ok]]

\* test_all_connections(), lines 142-158; probes: what the probe of each
\* pooled executor gave
test_all_connections(self, probes) ==
    [self |-> self, raised |-> FALSE,
     ret |-> [nm \in DOMAIN self.executors |->
                 IF probes[nm].raised THEN FALSE ELSE probes[nm].ok]]

TestAllConnections ==
    /\ Idle
    /\ \E answers \in [DOMAIN mgr.executors -> ProbeAnswers] :
          With([nm \in DOMAIN mgr.executors |->
                   probed(mgr.executors[nm], fs, answers[nm])],
               LAMBDA probes :
                  Answered("test_all_connections", probes,
                           test_all_connections(mgr, probes)))
    /\ UNCHANGED <<fs, polVars, execVars, loop>>

\* the names a caller may ask for: none, the empty one, configured ones, one
\* that is not configured
MachineNames == {None, <<>>, m_local, m_web, m_db, <<"n","o">>}

GetExecutor ==
    /\ Idle
    /\ \E machine_name \in MachineNames :
          Answered("get_executor", machine_name, get_executor(mgr, machine_name))
    /\ UNCHANGED <<fs, polVars, execVars, loop>>

Initialize == InitializeLocal \/ InitializeMachine \/ InitializeEnd

NextManager ==
    \/ Initialize
    \/ GetDefaultMachine

\* the bring-up of a new manager on every configuration; initialize() is a
\* coroutine the event loop keeps running: each of its awaits returns
SpecManager == InitManager /\ [][NextManager]_vars /\ WF_vars(Initialize)


---------------------------------------------------------------------------
(* SpecPool: the ConnectionManager of four configurations through          *)
(* initialize(), the calls that ask it for something, and shutdown()       *)

\* list_machines(), lines 117-119: the names of the pool
list_machines(self) ==
    [self |-> self, raised |-> FALSE, ret |-> DOMAIN self.executors]

\* is_initialized(), lines 125-127
is_initialized(self) ==
    [self |-> self, raised |-> FALSE, ret |-> self.initialized]

\* executor.__class__.__name__
class_name(executor) ==
    CASE executor.kind = "local" -> "LocalExecutor"
      [] executor.kind = "ssh"   -> "SSHExecutor"
      [] executor.kind = "winrm" -> "WinRMExecutor"

\* get_executor_stats(), lines 129-140
get_executor_stats(self) ==
    [self |-> self, raised |-> FALSE,
     ret |-> [nm \in DOMAIN self.executors |->
                 [type |-> class_name(self.executors[nm]),
                  connected |-> self.executors[nm].connected,
                  allowed_roots |-> self.executors[nm].allowed_roots]]]

ListMachines ==
    /\ Idle
    /\ Answered("list_machines", <<>>, list_machines(mgr))
    /\ UNCHANGED <<fs, polVars, execVars, loop>>

IsInitialized ==
    /\ Idle
    /\ Answered("is_initialized", <<>>, is_initialized(mgr))
    /\ UNCHANGED <<fs, polVars, execVars, loop>>

GetExecutorStats ==
    /\ Idle
    /\ Answered("get_executor_stats", <<>>, get_executor_stats(mgr))
    /\ UNCHANGED <<fs, polVars, execVars, loop>>

\* no machine; a machine of type local named 'web', the default; the local
\* machine and a default 'db'; the local machine and 'web', none the default;
\* a remote machine named 'local' and 'db' twice
PoolConfigs ==
    { <<>>,
      << MachineConfig(m_web, "local", TRUE, FALSE) >>,
      << MachineConfig(m_local, "local", FALSE, FALSE),
         MachineConfig(m_db, "ssh", TRUE, TRUE) >>,
      << MachineConfig(m_local, "local", FALSE, FALSE),
         MachineConfig(m_web, "winrm", FALSE, TRUE) >>,
      << MachineConfig(m_local, "ssh", FALSE, TRUE),
         MachineConfig(m_db, "ssh", TRUE, TRUE),
         MachineConfig(m_db, "ssh", FALSE, TRUE) >> }

InitPool ==
    /\ mgr \in {ConnectionManager(config) : config \in PoolConfigs}
    /\ fs = FsPlain
    /\ ex = NoExecutor
    /\ last = NoCall
    /\ ghost = NoHistory
    /\ loop = NoLoop
    /\ pathIn = NoPathIn
    /\ pathOut = NoPathOut
    /\ cmdIn = NoCmdIn
    /\ cmdOut = NoCmdOut

NextPool ==
    \/ Initialize
    \/ Shutdown
    \/ GetExecutor
    \/ ListMachines
    \/ GetDefaultMachine
    \/ IsInitialized
    \/ GetExecutorStats
    \/ TestAllConnections

SpecPool == InitPool /\ [][NextPool]_vars /\ WF_vars(Initialize)

---------------------------------------------------------------------------
(* SpecLoop: two callers' operations on one executor, run by one asyncio   *)
(* event loop. A step is what the loop thread runs of one coroutine from   *)
(* one suspension to the next. A transport call is either awaited (the     *)
(* coroutine is suspended, the call runs in a worker thread or in the      *)
(* child process) or made directly by the coroutine (the loop thread waits *)
(* inside it).                                                             *)

Callers == {1, 2}

\* a transport call of an operation: awaited: loop.run_in_executor /
\* process.communicate, or called directly; bound: "wait_for" (the await is
\* inside asyncio.wait_for), "transport" (a timeout is handed to the
\* transport call itself), "none" (the code sets no limit); ignored: the
\* result of the call is thrown away; guarded: made through
\* self.execute_command, which tests self.connected first
Call(nm, awaited, bound, ignored, guarded) ==
    [name |-> nm, awaited |-> awaited, bound |-> bound, ignored |-> ignored,
     guarded |-> guarded]

\* the transport calls of each operation, in the order of the code
calls(kind, op) ==
    CASE kind = "local" /\ op = "execute_command" ->
            << Call("process.communicate", TRUE, "wait_for", FALSE, FALSE) >>
      [] kind = "ssh" /\ op = "connect" ->
            << Call("client.connect", TRUE, "transport", FALSE, FALSE),
               Call("client.open_sftp", FALSE, "none", FALSE, FALSE) >>
      [] kind = "ssh" /\ op = "execute_command" ->
            << Call("client.exec_command", TRUE, "wait_for", FALSE, FALSE) >>
      [] kind = "ssh" /\ op = "read_file" ->
            << Call("sftp.open.read", TRUE, "wait_for", FALSE, FALSE) >>
      [] kind = "ssh" /\ op = "write_file" ->
            << Call("mkdir -p", TRUE, "wait_for", TRUE, TRUE),
               Call("sftp.open.write", TRUE, "none", FALSE, FALSE) >>
      [] kind = "ssh" /\ op = "file_exists" ->
            << Call("sftp.stat", FALSE, "none", FALSE, FALSE) >>
      [] kind = "ssh" /\ op = "list_directory" ->
            << Call("sftp.listdir_attr", FALSE, "none", FALSE, FALSE) >>
      [] kind = "winrm" /\ op = "connect" ->
            << Call("session.run_cmd", FALSE, "none", FALSE, FALSE) >>
      [] kind = "winrm" /\ op = "execute_command" ->
            << Call("session.run_cmd", TRUE, "wait_for", FALSE, FALSE) >>
      [] kind = "winrm" /\ op = "write_file" ->
            << Call("New-Item", TRUE, "wait_for", TRUE, TRUE),
               Call("WriteAllText", TRUE, "wait_for", FALSE, TRUE) >>
      [] kind = "winrm" /\ op \in {"read_file", "file_exists", "list_directory"} ->
            << Call("session.run_cmd", TRUE, "wait_for", FALSE, TRUE) >>
      [] OTHER -> << >>

\* the operations that return an ExecutionResult
DataOps == {"execute_command", "read_file", "write_file", "list_directory"}

\* what a caller asks for: the operation and its argument: "plain", "denied"
\* (a dangerous command, a path outside the allowed roots), "huge" (a file
\* larger than the read ceiling)
Requests ==
    [op : {"connect", "disconnect", "shutdown"}, arg : {"plain"}]
    \cup [op : DataOps \cup {"file_exists"}, arg : {"plain", "denied"}]
    \cup [op : {"read_file"}, arg : {"huge"}]

\* a coroutine that has not run yet
Task(request) ==
    [op |-> request.op, arg |-> request.arg, pc |-> "new", stage |-> 0,
     fate |-> "none", failures |-> {}, ok |-> FALSE, raised |-> FALSE]

\* the first line of the SSH and WinRM operations: if not self.connected ...;
\* LocalExecutor's operations have no such line
tests_connected(kind) == kind # "local"

\* the operation refuses its argument: is_dangerous_command in every
\* execute_command, resolve_safe_path in LocalExecutor's file operations
refuses(kind, op, arg) ==
    arg = "denied" /\ (op = "execute_command" \/ kind = "local")

\* the coroutine of caller t returns; failure: the failure modes it met
finish(L, t, ok, failure) ==
    [L EXCEPT !.tasks[t].pc = "done",
              !.tasks[t].ok = ok,
              !.tasks[t].failures = @ \cup failure,
              !.thread = 0]

\* the last transport call of caller t's operation is over (answer: "ok",
\* "error": it raised, "timeout": asyncio.TimeoutError, "absent": the nested
\* execute_command found the executor not connected): every operation's
\* body is inside try / except Exception
complete(L, t, answer) ==
    LET task == L.tasks[t]
        kind == L.e.kind
    IN  IF answer = "ok" /\ task.op = "connect"
        THEN [finish(L, t, TRUE, {}) EXCEPT !.e.connected = TRUE,
                                            !.e.closed = FALSE]
        ELSE IF answer = "ok" /\ task.op = "read_file" /\ task.arg = "huge"
        THEN finish(L, t, kind = "winrm", {"size"})
        ELSE IF answer = "ok"
        THEN finish(L, t, TRUE, {})
        ELSE finish(L, t, FALSE, {answer} \ {"error"})

RECURSIVE issue(_, _, _, _)
RECURSIVE after(_, _, _, _, _)

\* caller t's coroutine reaches its k-th transport call; fate: what the
\* transport will do with it ("answers", "silent"); a call on a closed SSH
\* client fails at once, and so does, in time, a silent call that was given
\* a timeout of its own
issue(L, t, k, fate) ==
    LET c == calls(L.e.kind, L.tasks[t].op)[k]
    IN  IF c.guarded /\ ~L.e.connected
        THEN after(L, t, k, "absent", fate)
        ELSE [L EXCEPT
                !.tasks[t].pc = IF c.awaited THEN "suspended" ELSE "blocking",
                !.tasks[t].stage = k,
                !.tasks[t].fate =
                    IF L.e.closed \/ (fate = "silent" /\ c.bound = "transport")
                    THEN "fails" ELSE fate,
                !.thread = IF c.awaited THEN 0 ELSE t]

\* caller t's coroutine goes on after its k-th transport call
after(L, t, k, answer, fate) ==
    LET cs == calls(L.e.kind, L.tasks[t].op)
    IN  IF cs[k].ignored \/ (answer = "ok" /\ k < Len(cs))
        THEN issue(L, t, k + 1, fate)
        ELSE complete(L, t, answer)

\* disconnect() of the executor while other coroutines are suspended
disconnected(L, t) ==
    [L EXCEPT !.e.connected = FALSE,
              !.e.closed = (L.e.kind = "ssh"),
              !.tasks = [u \in Callers |->
                  IF u # t /\ L.tasks[u].pc = "suspended"
                       /\ L.tasks[u].op \in DataOps
                  THEN [L.tasks[u] EXCEPT !.failures = @ \cup {"disconnected"}]
                  ELSE L.tasks[u]]]

\* caller t's coroutine runs from its first line to its first suspension;
\* answer: what LocalExecutor's own file system call does
begin(L, t, answer, fate) ==
    LET task == L.tasks[t]
        kind == L.e.kind
        absent == IF L.e.connected THEN {} ELSE {"absent"}
    IN  IF task.op \in {"disconnect", "shutdown"}
        THEN finish(disconnected(L, t), t, TRUE, {})
        ELSE IF task.op = "connect"
        THEN IF calls(kind, task.op) = <<>> THEN complete(L, t, answer)
             ELSE issue(L, t, 1, fate)
        ELSE IF tests_connected(kind) /\ ~L.e.connected
        THEN finish(L, t, FALSE, absent)
        ELSE IF refuses(kind, task.op, task.arg)
        THEN finish(L, t, FALSE, {"denied"})
        ELSE IF calls(kind, task.op) # <<>>
        THEN issue([L EXCEPT !.tasks[t].failures = absent], t, 1, fate)
        ELSE IF task.op = "read_file" /\ task.arg = "huge"
        THEN finish(L, t, FALSE, {"size"})
        ELSE IF answer = "ok"
        THEN finish(L, t, TRUE, absent)
        ELSE finish(L, t, FALSE, absent)

EventLoop(kind, connected, requests) ==
    [running |-> "loop",
     e |-> [kind |-> kind, connected |-> connected, closed |-> FALSE],
     thread |-> 0,
     tasks |-> [t \in Callers |-> Task(requests[t])]]

InitLoop ==
    /\ loop \in { EventLoop(kind, connected, requests) :
                    kind \in {"local", "ssh", "winrm"},
                    connected \in BOOLEAN,
                    requests \in [Callers -> Requests] }
    /\ mgr = NoManager
    /\ fs = FsPlain
    /\ ex = NoExecutor
    /\ last = NoCall
    /\ ghost = NoHistory
    /\ pathIn = NoPathIn
    /\ pathOut = NoPathOut
    /\ cmdIn = NoCmdIn
    /\ cmdOut = NoCmdOut

\* the loop runs a new coroutine up to its first suspension
LoopStart(t) ==
    /\ loop.thread = 0
    /\ loop.tasks[t].pc = "new"
    /\ \E answer \in {"ok", "error"}, fate \in {"answers", "silent"} :
          loop' = begin(loop, t, answer, fate)
    /\ UNCHANGED <<fs, polVars, execVars, mgr>>

\* the transport call of caller t returns or raises, and the coroutine runs
\* on to its next suspension; a suspended coroutine needs the loop thread
LoopAnswer(t) ==
    /\ loop.tasks[t].pc \in {"suspended", "blocking"}
    /\ loop.tasks[t].fate # "silent"
    /\ loop.thread = IF loop.tasks[t].pc = "blocking" THEN t ELSE 0
    /\ \E answer \in IF loop.tasks[t].fate = "fails" THEN {"error"}
                     ELSE {"ok", "error"},
          fate \in {"answers", "silent"} :
          loop' = after(loop, t, loop.tasks[t].stage, answer, fate)
    /\ UNCHANGED <<fs, polVars, execVars, mgr>>

\* the timer of asyncio.wait_for fires in the loop thread
LoopTimeout(t) ==
    /\ loop.tasks[t].pc = "suspended"
    /\ calls(loop.e.kind, loop.tasks[t].op)[loop.tasks[t].stage].bound = "wait_for"
    /\ loop.thread = 0
    /\ \E fate \in {"answers", "silent"} :
          loop' = after(loop, t, loop.tasks[t].stage, "timeout", fate)
    /\ UNCHANGED <<fs, polVars, execVars, mgr>>

NextLoop ==
    \E t \in Callers : LoopStart(t) \/ LoopAnswer(t) \/ LoopTimeout(t)

\* the loop keeps running what is ready to run
SpecLoop == InitLoop /\ [][NextLoop]_vars /\ WF_vars(NextLoop)

---------------------------------------------------------------------------
(* SpecRoundTrip: on a connected executor, write_file(p, c) and then       *)
(* read_file(p), the transport carrying every byte both ways. ghost holds  *)
(* the write: its path, its content, its result and what the remote        *)
(* machine stored.                                                         *)

\* the contents written: short ones, the empty one, one ending in a newline,
\* one with a carriage return, one longer than 2000 characters
RoundTripContents ==
    Contents \cup { <<>>, <<"h","i","\n">>, <<"a","\r","\n","b">>, LongText }

\* paths under the allowed root: an existing file, a file in a new directory
RoundTripPaths == { p_home_x, p_home_new_f }

\* the transport did what it was asked
Done == Exit(<<>>, <<>>, 0)

\* await executor.connect(), the transport answering
connect(self, f) ==
    CASE self.kind = "local" -> local_connect(self, f, FALSE)
      [] self.kind = "ssh"   -> ssh_connect(self, f, "ok")
      [] self.kind = "winrm" -> winrm_connect(self, f, Done)

\* await executor.write_file(path, content), the transport answering
write_file(self, f, path, content) ==
    CASE self.kind = "local" -> local_write_file(self, f, path, content, FALSE)
      [] self.kind = "ssh"   -> ssh_write_file(self, f, path, content, Done, FALSE)
      [] self.kind = "winrm" -> winrm_write_file(self, f, path, content, Done, Done)

\* await executor.read_file(path); stored: what the remote machine holds at
\* path and sends back whole
read_file(self, f, path, stored) ==
    CASE self.kind = "local" -> local_read_file(self, f, path, FALSE)
      [] self.kind = "ssh"   -> ssh_read_file(self, f, path, Exit(stored, <<>>, 0))
      [] self.kind = "winrm" -> winrm_read_file(self, f, path, Exit(stored, <<>>, 0))

InitRoundTrip ==
    /\ ex \in { LocalExecutor(<<p_home>>, <<pat_etc>>),
                SSHExecutor(m_web, <<p_home>>, <<pat_etc>>),
                WinRMExecutor(m_win, <<p_home>>, <<pat_etc>>) }
    /\ fs = FsPlain
    /\ last = NoCall
    /\ ghost = [pc |-> "created"]
    /\ mgr = NoManager
    /\ loop = NoLoop
    /\ pathIn = NoPathIn
    /\ pathOut = NoPathOut
    /\ cmdIn = NoCmdIn
    /\ cmdOut = NoCmdOut

RoundTripConnect ==
    /\ ghost.pc = "created"
    /\ With(connect(ex, fs), LAMBDA c :
          /\ c.ret
          /\ ex' = c.self
          /\ fs' = c.fs
          /\ ghost' = [pc |-> "connected"])
    /\ UNCHANGED <<last, polVars, sysVars>>

\* the write of a round trip, on a fresh connection or after an earlier
\* round trip
RoundTripWrite ==
    /\ ghost.pc \in {"connected", "read"}
    /\ \E path \in RoundTripPaths, content \in RoundTripContents :
          With(write_file(ex, fs, path, content), LAMBDA step :
             /\ Return("write_file", path, content, <<>>, step)
             /\ ghost' = [pc |-> "written", path |-> path, content |-> content,
                          w |-> step.res,
                          store |-> IF step.res.ok THEN content ELSE <<>>])
    /\ UNCHANGED <<ex, polVars, sysVars>>

\* the read of the round trip: the next call on the path
RoundTripRead ==
    /\ ghost.pc = "written"
    /\ With(read_file(ex, fs, ghost.path, ghost.store), LAMBDA step :
          /\ Return("read_file", ghost.path, <<>>, ghost.store, step)
          /\ ghost' = [ghost EXCEPT !.pc = "read"])
    /\ UNCHANGED <<ex, polVars, sysVars>>

NextRoundTrip == RoundTripConnect \/ RoundTripWrite \/ RoundTripRead

SpecRoundTrip == InitRoundTrip /\ [][NextRoundTrip]_vars

---------------------------------------------------------------------------
(* Claims about SecurityPolicy                                             *)

\* the components of a path text, '/' being the only separator
componentsOf(text) == SelectSeq(split(text, "/"), LAMBDA c : c # <<>>)

\* `pre` is a prefix of the sequence `s`
IsPrefix(pre, s) == Len(pre) <= Len(s) /\ SubSeq(s, 1, Len(pre)) = pre

\* the path `parts` is the canonical root `roots[i]` or lies below it
UnderSomeRoot(f, parts, roots) ==
    \E i \in 1..Len(roots) :
        LET r == resolve(f, PathOf(roots[i]))
        IN  r.st = "ok" /\ IsPrefix(r.at, parts)

\* the literal text of a pattern '*text*' between its two stars
PatternCore(pattern) == SubSeq(pattern, 2, Len(pattern) - 1)

\* the path text contains the literal core of some blocked pattern
HitsBlockedPattern(parts, patterns) ==
    \E i \in 1..Len(patterns) : contains(str(parts), PatternCore(patterns[i]))

\* C4: resolve_safe_path accepts a path if and only if its canonical form
\* (the target computed by step 1) lies under at least one allowed root and
\* matches no blocked pattern; in particular every unblocked path is accepted
\* under the root '/'.
C4_AcceptIffUnderRootAndNotBlocked ==
    (pathOut.fn = "resolve_safe_path" /\ pathOut.status # "resolution_failed")
        => ( pathOut.status = "ok"
               <=> ( /\ UnderSomeRoot(fs, pathOut.path, pathIn.roots)
                     /\ ~HitsBlockedPattern(pathOut.path, pathIn.patterns) ) )

\* C5: the blacklist is checked first and always wins: a target that
\* contains the text of a blocked pattern is rejected with the
\* blocked-directory error, whether or not it lies inside an allowed root,
\* and the blocked-directory error is reported for no other target.
C5_BlacklistWins ==
    (pathOut.fn = "resolve_safe_path" /\ pathOut.status # "resolution_failed")
        => ( HitsBlockedPattern(pathOut.path, pathIn.patterns)
               <=> pathOut.status = "blocked" )

\* C5 witness: a target inside an allowed root is rejected as blocked
C5_Witness ==
    /\ pathOut.fn = "resolve_safe_path"
    /\ pathOut.status = "blocked"
    /\ is_allowed(fs, pathOut.path, pathIn.roots)
    /\ UnderSomeRoot(fs, pathOut.path, pathIn.roots)

OccursIgnoringCase(text) ==
    \E i \in 1..Len(DANGEROUS_COMMANDS) :
        LET pat == DANGEROUS_COMMANDS[i]
        IN  \E off \in 0..(Len(text) - Len(pat)) :
                \A k \in 1..Len(pat) : LowerChar(text[off + k]) = LowerChar(pat[k])

c_sudo_rm == <<"s","u","d","o"," ","r","m"," ","-","r","f"," ","/">>
c_RM      == <<"R","M"," ","-","R","F"," ","/">>
c_ls      == <<"l","s"," ","-","l","a"," ","/","t","m","p">>

\* C8: is_dangerous_command(c) is true exactly when some deny-list pattern
\* occurs in c ignoring case; so the verdict does not change when c is
\* upper-cased, a text that contains a dangerous text is dangerous, and
\* 'sudo rm -rf /' and 'RM -RF /' are dangerous while 'ls -la /tmp' is not.
C8_DangerousIffPatternOccurs ==
    cmdOut.done =>
        /\ cmdOut.whole <=> OccursIgnoringCase(cmdIn.text)
        /\ cmdOut.upper = cmdOut.whole
        /\ cmdOut.inner => cmdOut.whole
        /\ cmdIn.text \in {c_sudo_rm, c_RM} => cmdOut.whole
        /\ cmdIn.text = c_ls => ~cmdOut.whole

\* C8 witness: 'sudo rm -rf /' was classified, and as dangerous
C8_Witness ==
    /\ cmdOut.done
    /\ cmdIn.text = c_sudo_rm
    /\ cmdOut.whole

---------------------------------------------------------------------------
(* Claims about the executors                                              *)

DataPlaneOps == {"execute_command", "read_file", "write_file", "list_directory"}

\* the calls that start a process or send a command to a remote host
DispatchActs ==
    {"create_subprocess_shell", "client.exec_command", "session.run_cmd"}

\* the executor `e` passes the not-connected guard of execute_command: the
\* local executor has none, SSH and WinRM need the flag and the handle
PassesGuard(e) ==
    \/ e.kind = "local"
    \/ e.kind = "ssh" /\ e.connected /\ e.client # "None"
    \/ e.kind = "winrm" /\ e.connected /\ e.session # "None"

\* C1 as stated: a data-plane operation called while the executor is not
\* connected returns ok=false with a 'not connected' error and performs no
\* transport or filesystem action.
C1_NotConnectedRejected ==
    (last.op \in DataPlaneOps /\ ~last.pre.connected)
        => /\ ~last.res.ok
           /\ contains(last.res.error, <<"n","o","t"," ","c","o","n","n","e","c","t","e","d">>)
           /\ last.eff = <<>>

\* C2: a dangerous command is never dispatched: execute_command of a
\* dangerous command spawns nothing and sends nothing, returns ok=false, and
\* its error is the Security Violation when the call passes the not-connected
\* guard and the not-connected error otherwise; and no call of any operation
\* dispatches a dangerous command.
C2_DangerousNeverDispatched ==
    /\ (last.op = "execute_command" /\ is_dangerous_command(last.arg))
          => /\ last.eff = <<>>
             /\ ~last.res.ok
             /\ IF PassesGuard(last.pre)
                THEN last.res.error = DangerousCommandDetected
                ELSE contains(last.res.error, <<"n","o","t"," ","c","o","n","n","e","c","t","e","d">>)
    /\ \A i \in 1..Len(last.eff) :
          last.eff[i].act \in DispatchActs => ~is_dangerous_command(last.eff[i].arg)

\* C2, witness: a connected SSH executor refused a dangerous command
C2_Witness ==
    /\ last.op = "execute_command"
    /\ is_dangerous_command(last.arg)
    /\ last.pre.kind = "ssh"
    /\ last.pre.connected
    /\ last.res.error = DangerousCommandDetected
    /\ last.eff = <<>>

\* C2 as stated: execute_command of a dangerous command dispatches nothing
\* and returns ok=false with the Security Violation error, on every backend
\* and in every state.
C2_DangerousAlwaysSecurityViolation ==
    (last.op = "execute_command" /\ is_dangerous_command(last.arg))
        => /\ last.eff = <<>>
           /\ ~last.res.ok
           /\ startswith(last.res.error, SecurityViolation)

\* C3 as stated: read_file and write_file touch the transport or the
\* filesystem only for a path that resolve_safe_path accepts under the
\* executor's allowed_roots and blocked_patterns.
C3_PathCheckedBeforeTransport ==
    (last.op \in {"read_file", "write_file"} /\ last.eff # <<>>)
        => resolve_safe_path(fs, last.arg, last.op = "read_file",
                             last.pre.allowed_roots,
                             last.pre.blocked_patterns).status = "ok"

\* C6 as stated: every object a LocalExecutor call wrote, read or listed
\* has its canonical location under an allowed root.
C6_TouchedUnderAllowedRoot ==
    (last.pre.kind = "local"
        /\ last.op \in {"write_file", "read_file", "list_directory"})
        => \A at \in last.touched : UnderSomeRoot(fs, at, last.pre.allowed_roots)

\* C9 as stated: in every ExecutionResult, error is empty exactly when ok is
\* true.
C9_ErrorEmptyIffOk ==
    (last.op \in DataPlaneOps) => ((last.res.error = <<>>) <=> last.res.ok)

\* C10 as stated: once disconnect() has been called, is_connected() is false
\* in every later state.
C10_DisconnectedIsTerminal ==
    ghost.disconnected => ~ex.connected

\* executor.disconnect() of the executor's class
disconnect(self, raises) ==
    CASE self.kind = "local" -> local_disconnect(self)
      [] self.kind = "ssh"   -> ssh_disconnect(self, raises)
      [] self.kind = "winrm" -> winrm_disconnect(self)

\* the fields of the executor as its methods test them: the flag, and for each
\* handle whether it is set; whether a handle that is set is still open is the
\* state of the transport object, not of the executor
Fields(e) ==
    [connected |-> e.connected, client |-> e.client # "None",
     sftp |-> e.sftp # "None", session |-> e.session # "None"]

\* C11: disconnect() called in any state, for the first time or again, and
\* whether or not closing the transport raised, returns with connected=false;
\* one more disconnect(), whatever the transport answers, leaves connected
\* false and every field of the executor as the first left it, and leaves the
\* transport handles as they are too when the transport answers as before.
C11_DisconnectSafeAndIdempotent ==
    last.op = "disconnect" =>
        /\ ~ex.connected
        /\ \A raises \in BOOLEAN :
               /\ ~disconnect(ex, raises).connected
               /\ Fields(disconnect(ex, raises)) = Fields(ex)
               /\ disconnect(disconnect(ex, raises), raises) = disconnect(ex, raises)

\* C11 happens: disconnect() has returned on an SSH executor that an earlier
\* disconnect() had left with connected=false and the transport still open,
\* because close() had raised
C11_Witness ==
    /\ last.op = "disconnect"
    /\ last.pre.kind = "ssh"
    /\ ~last.pre.connected
    /\ last.pre.sftp = "open"
    /\ ghost.disconnected
    /\ ~ex.connected

\* C12: connect() returns true only with connected=true set, and returns
\* false whenever bringing up the transport failed: the workspace could not be
\* made (local), client.connect or open_sftp raised (SSH), the probe command
\* raised, timed out or ended with a non-zero status (WinRM).
C12_ConnectFalseOnFailure ==
    /\ (last.op = "connect" /\ last.ret) => ex.connected
    /\ (last.op = "connect" /\ last.pre.kind = "ssh" /\ ex.sftp # "open")
           => ~last.ret
    /\ ex.kind = "local" => ~local_connect(ex, fs, TRUE).ret
    /\ ex.kind = "ssh" =>
           \A outcome \in {"connect_raises", "open_sftp_raises"} :
               /\ ~ssh_connect(ex, fs, outcome).ret
               /\ ssh_connect(ex, fs, outcome).self.connected = ex.connected
    /\ ex.kind = "winrm" =>
           \A outcome \in CmdOutcomes :
               (outcome.k # "exit" \/ outcome.rc # 0)
                   => /\ ~winrm_connect(ex, fs, outcome).ret
                      /\ winrm_connect(ex, fs, outcome).self.connected = ex.connected

\* C12 happens: connect() has returned false on an SSH executor whose
\* client.connect succeeded and whose open_sftp raised
C12_Witness ==
    /\ last.op = "connect"
    /\ last.pre.kind = "ssh"
    /\ ~last.ret
    /\ ex.client = "open"
    /\ ex.sftp = "None"
    /\ ~ex.connected

\* read_file got as far as the size of what it reads, and that size is n:
\* the local file passed the path check and is_file() and open() did not
\* raise; the connected remote executor got all n characters from the
\* transport
ReadOfSize(n) ==
    /\ last.op = "read_file"
    /\ CASE last.pre.kind = "local" ->
                /\ last.touched # {}
                /\ last.answer = FALSE
                /\ \A at \in last.touched : fs[at].size = n
         [] last.pre.kind = "ssh" ->
                /\ last.pre.connected
                /\ last.pre.sftp = "open"
                /\ last.answer.k = "exit"
                /\ last.answer.n = n
         [] last.pre.kind = "winrm" ->
                /\ last.pre.connected
                /\ last.pre.session # "None"
                /\ last.answer.k = "exit"
                /\ last.answer.n = n

\* C15 as stated: on every backend, read_file of a file of exactly 2 MiB
\* returns ok=true and read_file of a file of 2 MiB + 1 returns ok=false with
\* a size-limit error.
C15_ReadSizeBoundary ==
    /\ ReadOfSize(Ceiling) => last.res.ok
    /\ ReadOfSize(Ceiling + 1) =>
           /\ ~last.res.ok
           /\ contains(last.res.error, FileTooLarge)

\* C16: in every result of execute_command, stdout and stderr have at most
\* 2000 characters, and in a result with ok=true each is the stream the
\* command produced, or its first 2000 characters when the stream is longer.
C16_StreamsCutAt2000 ==
    last.op = "execute_command" =>
        /\ Len(last.res.stdout) <= 2000
        /\ Len(last.res.stderr) <= 2000
        /\ last.res.ok =>
               /\ Len(last.res.stdout) = IF last.answer.n < 2000
                                         THEN last.answer.n ELSE 2000
               /\ \A i \in 1..Len(last.res.stdout) :
                      last.res.stdout[i] = last.answer.out[i]
               /\ Len(last.res.stderr) = IF Len(last.answer.err) < 2000
                                         THEN Len(last.answer.err) ELSE 2000
               /\ \A i \in 1..Len(last.res.stderr) :
                      last.res.stderr[i] = last.answer.err[i]

\* C16 happens: execute_command returned ok=true for a command that produced
\* more than 2000 characters on stdout and on stderr
C16_Witness ==
    /\ last.op = "execute_command"
    /\ last.res.ok
    /\ last.answer.n > 2000
    /\ Len(last.answer.err) > 2000
    /\ Len(last.res.stdout) = 2000
    /\ Len(last.res.stderr) = 2000

\* C17 as stated: when a command run by LocalExecutor.execute_command is
\* still running at the timeout, the call returns ok=false with the timeout
\* error and none of the processes the command started (the shell, the
\* children of the shell) is still running.
C17_TimeoutKillsProcessGroup ==
    (/\ last.op = "execute_command"
     /\ last.pre.kind = "local"
     /\ last.eff # <<>>
     /\ last.answer.k = "timeout")
        => /\ ~last.res.ok
           /\ last.res.error = timed_out
           /\ last.running = {}


\* C14: on a connected executor, write_file(p, c) for p under an allowed
\* root and then read_file(p) both return ok=true, and the content read is c.
C14_RoundTrip ==
    (ghost.pc = "read" /\ last.op = "read_file") =>
        /\ ghost.w.ok
        /\ last.res.ok
        /\ last.res.content = ghost.content


\* the lines of a listing: none for an empty text
lines_of(content) == IF content = <<>> THEN <<>> ELSE split(content, "\n")

\* 'dir: <name>' or 'file: <name>', with a name
entry_line(line) ==
    \/ startswith(line, <<"d","i","r",":"," ">>) /\ Len(line) > 5
    \/ startswith(line, <<"f","i","l","e",":"," ">>) /\ Len(line) > 6

\* C26 as stated: on every backend the content of a list_directory that
\* returned ok=true is one line per entry, each 'dir: <name>' or
\* 'file: <name>', joined by newlines, and nothing else.
C26_ListingFormat ==
    (last.op = "list_directory" /\ last.res.ok) =>
        /\ \A i \in 1..Len(lines_of(last.res.content)) :
              entry_line(lines_of(last.res.content)[i])
        /\ last.pre.kind = "ssh" =>
              Len(lines_of(last.res.content)) = Len(last.answer[1])

\* C26, LocalExecutor and SSHExecutor: the listing of a directory with
\* entries has returned ok=true
C26_ListedTwo ==
    /\ last.op = "list_directory"
    /\ last.res.ok
    /\ last.pre.kind \in {"local", "ssh"}
    /\ Len(lines_of(last.res.content)) >= 2


\* the path of the read_file that has returned does not exist: not in the
\* local filesystem; sftp.open raised; Get-Content printed nothing and ended
\* with a status other than 0
ReadOfMissing ==
    /\ last.op = "read_file"
    /\ \/ last.pre.kind = "local" /\ ~exists(fs, PathOf(last.arg))
       \/ last.pre.kind = "ssh" /\ last.answer.k = "raise"
       \/ /\ last.pre.kind = "winrm"
          /\ last.answer.k = "exit"
          /\ last.answer.out = <<>>
          /\ last.answer.rc # 0

\* C27 as stated: on every backend read_file of a path that does not exist
\* returns ok=false with an error text that is not empty.
C27_ReadMissing ==
    ReadOfMissing => ~last.res.ok /\ last.res.error # <<>>


\* the check of the file_exists that has returned succeeded and found the
\* path: the resolved path is in the local filesystem; sftp.stat returned on
\* the open channel; Test-Path ran and printed True
CheckFound ==
    \/ /\ last.pre.kind = "local"
       /\ last.touched # {}
    \/ /\ last.pre.kind = "ssh"
       /\ last.pre.connected
       /\ last.pre.sftp = "open"
       /\ ~last.answer
    \/ /\ last.pre.kind = "winrm"
       /\ last.pre.connected
       /\ last.eff # <<>>
       /\ last.answer.k = "exit"
       /\ lower(strip(last.answer.out)) = <<"t","r","u","e">>

\* the check failed inside file_exists: the path was refused; sftp.stat
\* raised; the command raised or timed out
CheckFailed ==
    \/ /\ last.pre.kind = "local"
       /\ resolve_safe_path(fs, last.arg, FALSE, last.pre.allowed_roots,
                            last.pre.blocked_patterns).status # "ok"
    \/ last.pre.kind = "ssh" /\ last.answer
    \/ last.pre.kind = "winrm" /\ last.answer.k \in {"raise", "timeout"}

\* C28: on every backend file_exists returns and lets no exception out; it
\* returns false when the check failed inside it, and true only when the
\* check succeeded and found the path.
C28_FileExistsTotal ==
    last.op = "file_exists" =>
        /\ ~last.raised
        /\ CheckFailed => ~last.ret
        /\ last.ret => CheckFound

\* C28 happens: a file_exists whose check failed has returned false
C28_Witness ==
    /\ last.op = "file_exists"
    /\ CheckFailed
    /\ last.eff # <<>>
    /\ ~last.ret
    /\ ~last.raised


\* the credentials of the connection attempt of the connect() that has
\* returned, when it made one
Attempted(credentials) ==
    /\ last.eff # <<>>
    /\ last.eff[1] = Effect("client.connect", credentials)

\* the key file of the executor that connect() was called on is there
KeyFileThere ==
    /\ truthy(last.pre.ssh_config.private_key_path)
    /\ exists(fs, PathOf(last.pre.ssh_config.private_key_path))

\* a key path is configured, its file is not there, a password is configured
KeyMissingWithPassword ==
    /\ truthy(last.pre.ssh_config.private_key_path)
    /\ ~exists(fs, PathOf(last.pre.ssh_config.private_key_path))
    /\ truthy(last.pre.ssh_config.password)

\* C29 as stated: in SSHExecutor.connect(), when a key path is configured
\* and the file exists the connection is attempted with the key, also when a
\* password is configured; when a key path is configured, the file is
\* missing and a password is configured, the connection is attempted with
\* the password.
C29_AuthSelection ==
    (last.op = "connect" /\ last.pre.kind = "ssh") =>
        /\ KeyFileThere /\ last.eff # <<>> => Attempted(<<"pkey">>)
        /\ KeyMissingWithPassword => Attempted(<<"password">>)


\* the commands the write_file that has returned sent to the session
Sent == [i \in 1..Len(last.eff) |-> last.eff[i].arg]

\* the two commands a WinRM write_file of last.arg and last.data builds
MkdirCmd == mkdir_cmd_of(dir_path_of(last.arg))
WriteCmd == write_cmd_of(ps_path_of(last.arg), b64encode(encode(last.data)))

\* C30: a write_file on a connected WinRMExecutor sends at most two
\* commands, the directory command (only for a path with a directory part)
\* before the write command; no command that is_dangerous_command matches is
\* sent; the write command is sent whatever became of the directory command,
\* unless it matches the deny list, and then the call returns the Security
\* Violation result and the write command is not sent.
C30_WinRMWrite ==
    (/\ last.op = "write_file"
     /\ last.pre.kind = "winrm"
     /\ last.pre.connected
     /\ last.pre.session # "None") =>
        /\ Sent \in { <<>>, <<MkdirCmd>>, <<WriteCmd>>, <<MkdirCmd, WriteCmd>> }
        /\ \A i \in 1..Len(Sent) : ~is_dangerous_command(Sent[i])
        /\ (Sent # <<>> /\ Sent[1] = MkdirCmd) => dir_path_of(last.arg) # <<>>
        /\ IF is_dangerous_command(WriteCmd)
           THEN /\ ~last.res.ok
                /\ last.res.error = DangerousCommandDetected
                /\ \A i \in 1..Len(Sent) : Sent[i] # WriteCmd
           ELSE Sent # <<>> /\ Sent[Len(Sent)] = WriteCmd

\* C30 happens: the write of "2Al", whose base64 text is "MkFs", to a path
\* with a directory part was refused after the directory command was sent
C30_Witness ==
    /\ last.op = "write_file"
    /\ last.pre.kind = "winrm"
    /\ last.pre.connected
    /\ last.data = <<"2","A","l">>
    /\ last.res.error = DangerousCommandDetected
    /\ Sent = <<MkdirCmd>>


\* C33 as stated: the session that WinRMExecutor.connect() creates validates
\* the server certificate when the machine's cert_validation is true and
\* skips the validation when it is false.
C33_CertValidation ==
    (last.op = "connect" /\ last.pre.kind = "winrm") =>
        ex.server_cert_validation =
            IF last.pre.cert_validation THEN "validate" ELSE "ignore"

\* C36 as stated: when connect() returns false, on a fresh executor or on one
\* that was connected, the executor is not connected afterwards and the SSH
\* client that this connect() created does not stay open.
C36_FailedConnectIsClean ==
    (last.op = "connect" /\ ~last.ret) =>
        /\ ~ex.connected
        /\ ex.kind = "ssh" => ex.client # "open"

\* the command of the execute_command that has returned was run to its end on
\* the executor the call was made on: the executor was connected and held its
\* transport, the deny list let the command through, and the command exited
Completed ==
    /\ last.pre.kind = "ssh" =>
          last.pre.connected /\ last.pre.client = "open"
    /\ last.pre.kind = "winrm" =>
          last.pre.connected /\ last.pre.session # "None"
    /\ ~is_dangerous_command(last.arg)
    /\ last.answer.k = "exit"

\* the last command a WinRM file operation built reached the session and
\* exited
RemoteCompleted(answer) ==
    /\ last.pre.connected
    /\ last.pre.session # "None"
    /\ last.eff # <<>>
    /\ ~is_dangerous_command(last.eff[Len(last.eff)].arg)
    /\ answer.k = "exit"

sh_commands(line) == split(line, ";")

\* the single-quoted PowerShell literal that opens at the first "'" of the
\* command: the text up to the next "'"
ps_first_literal(cmd) ==
    LET quotes == SelectSeq([i \in 1..Len(cmd) |-> i], LAMBDA i : cmd[i] = "'")
    IN  SubSeq(cmd, quotes[1] + 1, quotes[2] - 1)

\* C39 as stated: the path of a file operation is used only as a location:
\* the shell line that SSH write_file sends is the one command
\* 'mkdir -p <directory of the path>', and in each command that WinRM
\* write_file sends the quoted literal is the whole directory or path, so
\* that nothing of the path text is run as a command.
C39_PathIsOnlyALocation ==
    /\ (last.op = "write_file" /\ last.pre.kind = "ssh") =>
          \A i \in 1..Len(last.eff) :
              last.eff[i].act = "client.exec_command" =>
                  Len(sh_commands(last.eff[i].arg)) = 1
    /\ (last.op = "write_file" /\ last.pre.kind = "winrm") =>
          \A i \in 1..Len(last.eff) :
              /\ last.eff[i].arg = MkdirCmd =>
                    ps_first_literal(last.eff[i].arg) = dir_path_of(last.arg)
              /\ last.eff[i].arg = WriteCmd =>
                    ps_first_literal(last.eff[i].arg) = ps_path_of(last.arg)

---------------------------------------------------------------------------
(* Claims about the ConnectionManager                                      *)

\* the names of the pool
pool == DOMAIN mgr.executors

\* C20: initialize() runs to its end for every configuration and whatever
\* each connect() does (returns true, returns false, raises); the manager is
\* marked initialized at the end of the loop and not before; the pool then
\* holds 'local' if the local connect() returned true, and besides that the
\* names of exactly the configured remote machines whose connect() returned
\* true, each with an executor that is connected.
C20_PartialBringUp ==
    /\ [](mgr.initialized <=> mgr.pc = "initialized")
    /\ [](mgr.pc = "initialized" =>
            /\ mgr.local_ok => m_local \in pool
            /\ pool \ {m_local} = mgr.remote_ok \ {m_local}
            /\ m_local \in pool <=> (mgr.local_ok \/ m_local \in mgr.remote_ok)
            /\ \A nm \in pool : mgr.executors[nm].connected)
    /\ [](mgr.pc \in {"created", "machines"} ~> mgr.pc = "initialized")

\* C20 happens: initialize() has ended with a pool of 'local' and one remote
\* machine, after the connect() of another configured machine failed
C20_Witness ==
    /\ mgr.pc = "initialized"
    /\ mgr.initialized
    /\ Len(mgr.config) = 2
    /\ mgr.local_ok
    /\ pool = {m_local, m_win}
    /\ \E i \in 1..Len(mgr.config) :
          /\ mgr.config[i].name = m_web
          /\ mgr.config[i].has_config


---------------------------------------------------------------------------
(* Claims about the event loop                                             *)

\* C13: an execute_command, read_file, write_file or list_directory that
\* has returned did not raise, and returned ok=false if it met a failure
\* mode: the executor was not connected, the argument was refused, the call
\* timed out, the file was over the read ceiling, or a disconnect() or
\* shutdown() ran while it was suspended on its transport.
C13_FailureModesReturnNotOk ==
    \A t \in Callers :
        (loop.tasks[t].pc = "done" /\ loop.tasks[t].op \in DataOps) =>
            /\ ~loop.tasks[t].raised
            /\ loop.tasks[t].failures # {} => ~loop.tasks[t].ok

\* C18: every operation that was called returns, whatever the transport
\* does, also when it never answers.
C18_EveryCallReturns ==
    \A t \in Callers : <>(loop.tasks[t].pc = "done")

\* caller t's coroutine could run if the loop thread took it
Ready(t) ==
    \/ loop.tasks[t].pc = "new"
    \/ /\ loop.tasks[t].pc = "suspended"
       /\ \/ loop.tasks[t].fate # "silent"
          \/ calls(loop.e.kind, loop.tasks[t].op)[loop.tasks[t].stage].bound = "wait_for"

\* C19: while one caller's operation waits on its transport, another
\* caller's operation that is ready to run can take a step.
C19_WaitingDoesNotBlockOthers ==
    \A t \in Callers : \A u \in Callers \ {t} :
        (loop.tasks[t].pc \in {"suspended", "blocking"} /\ Ready(u)) =>
            ENABLED (LoopStart(u) \/ LoopAnswer(u) \/ LoopTimeout(u))


\* the configuration [local(is_default=false), 'db'(is_default=true)]
LocalAndDefaultDb ==
    << MachineConfig(m_local, "local", FALSE, FALSE),
       MachineConfig(m_db, "ssh", TRUE, TRUE) >>

\* get_default_machine() has just returned, after an initialize()
AskedDefault ==
    mgr.pc = "initialized" /\ mgr.asked.op = "get_default_machine"

\* C21 as stated: after initialize() with [local(is_default=false),
\* 'db'(is_default=true)], get_default_machine() returns 'db'; with no
\* machine flagged default it returns 'local'.
C21_DefaultResolution_AsStated ==
    AskedDefault =>
        /\ mgr.config = LocalAndDefaultDb => mgr.asked.ret = m_db
        /\ (\A i \in 1..Len(mgr.config) : ~mgr.config[i].is_default)
              => mgr.asked.ret = m_local

\* C21: after initialize() with [local(is_default=false),
\* 'db'(is_default=true)], get_default_machine() returns 'db' if the
\* connect() of 'db' has returned true in this or an earlier initialize() of
\* the manager, and 'local' if it never has; with no machine flagged default
\* it returns 'local'.
C21_DefaultResolution ==
    AskedDefault =>
        /\ mgr.config = LocalAndDefaultDb =>
              mgr.asked.ret = IF m_db \in mgr.ever_ok THEN m_db ELSE m_local
        /\ (\A i \in 1..Len(mgr.config) : ~mgr.config[i].is_default)
              => mgr.asked.ret = m_local

\* C21 happens: get_default_machine() returned 'db' after an initialize()
\* with [local(is_default=false), 'db'(is_default=true)]
C21_Witness ==
    /\ AskedDefault
    /\ mgr.config = LocalAndDefaultDb
    /\ mgr.runs = 1
    /\ mgr.asked.ret = m_db


\* the name get_executor has resolved: the one asked for, or the default
\* when none or an empty one was given
Resolved ==
    IF mgr.asked.arg \in {None, <<>>} THEN mgr.default_machine
    ELSE mgr.asked.arg

\* C22: get_executor(name) resolves the name, or the remembered default when
\* the name is omitted or empty; if the resolved name is in the pool it
\* returns the executor stored under it, otherwise it fails with an error
\* that carries the names of the pool; the call leaves the pool and
\* default_machine as they were.
C22_GetExecutor ==
    /\ [](mgr.asked.op = "get_executor" =>
            IF Resolved \in pool
            THEN ~mgr.asked.raised /\ mgr.asked.ret = mgr.executors[Resolved]
            ELSE /\ mgr.asked.raised
                 /\ mgr.asked.ret = MachineNotAvailable(Resolved, pool))
    /\ [][mgr'.asked.op = "get_executor" =>
            /\ mgr'.executors = mgr.executors
            /\ mgr'.default_machine = mgr.default_machine]_vars

\* C22 happens: get_executor() without a name returned the executor of the
\* default machine 'db'
C22_Witness ==
    /\ mgr.asked.op = "get_executor"
    /\ mgr.asked.arg = None
    /\ mgr.default_machine = m_db
    /\ ~mgr.asked.raised
    /\ mgr.asked.ret = mgr.executors[m_db]


\* C23: test_all_connections() returns a mapping whose keys are exactly the
\* names of the pool, with true for a machine iff its probe returned
\* ok=true, false when the probe returned ok=false or raised; the pool and
\* every executor in it are as they were before the call.
C23_TestAllConnections ==
    /\ [](mgr.asked.op = "test_all_connections" =>
            /\ DOMAIN mgr.asked.ret = pool
            /\ \A nm \in pool :
                  mgr.asked.ret[nm] =
                      (~mgr.asked.arg[nm].raised /\ mgr.asked.arg[nm].ok))
    /\ [][mgr'.asked.op = "test_all_connections" =>
            mgr'.executors = mgr.executors]_vars

\* C23 happens: of two pooled machines one probe returned ok=true and the
\* other failed, and both are still pooled and connected
C23_Witness ==
    /\ mgr.asked.op = "test_all_connections"
    /\ pool = {m_local, m_db}
    /\ mgr.asked.ret[m_local]
    /\ ~mgr.asked.ret[m_db]
    /\ mgr.executors[m_db].connected


\* C24: shutdown() calls disconnect() on every executor of the pool, also
\* when one of the calls raises, and leaves the pool empty and
\* is_initialized() false; the pool that a later initialize() builds holds
\* no object that a shutdown() has disconnected.
C24_ShutdownThenRebuild ==
    /\ [](mgr.asked.op = "shutdown" =>
            /\ ~mgr.asked.raised
            /\ pool = {}
            /\ ~is_initialized(mgr).ret)
    /\ [][mgr'.asked.op = "shutdown" /\ mgr.pc = "initialized" =>
            objects(mgr) \subseteq mgr'.closed]_vars
    /\ [](objects(mgr) \cap mgr.closed = {})

\* C24 happens: after a shutdown() in which a disconnect() raised, a second
\* initialize() has pooled 'local' and 'db' again
C24_Witness ==
    /\ mgr.pc = "initialized"
    /\ mgr.runs = 2
    /\ mgr.escaped
    /\ mgr.closed # {}
    /\ pool = {m_local, m_db}


\* C25: the names of the pool grow only in a step of initialize() and shrink
\* only in a step of shutdown(); get_executor, list_machines,
\* get_default_machine, is_initialized, get_executor_stats and
\* test_all_connections leave the pool mapping and default_machine as they
\* were.
C25_PoolFrame ==
    [][/\ pool' \ pool # {} =>
             mgr.pc \in {"created", "machines"} /\ mgr'.asked.op = "initialize"
       /\ pool \ pool' # {} =>
             mgr.pc = "initialized" /\ mgr'.asked.op = "shutdown"
       /\ Idle /\ mgr'.pc = mgr.pc /\ mgr'.asked.op \in Readers =>
             /\ mgr'.executors = mgr.executors
             /\ mgr'.default_machine = mgr.default_machine]_vars

\* C25 happens: the pool grew, was emptied by shutdown() and grew again to
\* 'local' and 'db', whose default is 'db', and get_executor_stats() has
\* answered on it
C25_Witness ==
    /\ mgr.asked.op = "get_executor_stats"
    /\ mgr.runs = 2
    /\ mgr.closed # {}
    /\ pool = {m_local, m_db}
    /\ mgr.default_machine = m_db


\* the names of the machines of config[from..], in configuration order, for
\* which initialize() builds an executor
RECURSIVE remote_names(_, _)
remote_names(config, from) ==
    IF from > Len(config) THEN <<>>
    ELSE (IF config[from].type # "local" /\ config[from].has_config
          THEN <<config[from].name>> ELSE <<>>)
         \o remote_names(config, from + 1)

C32_OneExecutorPerName ==
    mgr.pc # "none" => mgr.live = objects(mgr)

\* C32, configurations whose machine names differ from each other and from
\* 'local': the connected executors are the entries of the pool
DistinctNames ==
    /\ \A i \in 1..Len(mgr.config) : \A j \in 1..Len(mgr.config) :
          i # j => mgr.config[i].name # mgr.config[j].name
    /\ \A i \in 1..Len(mgr.config) :
          mgr.config[i].type # "local" => mgr.config[i].name # m_local


---------------------------------------------------------------------------
(* SpecRace: test_all_connections() and shutdown() as the coroutines they   *)
(* are, suspended at each await, with initialize() and get_executor()       *)
(* running in between (core/connection.py)                                  *)

\* list(self.executors): the names in the order the dict holds them, 'local'
\* first when its connect() returned true, then the configured names
keys(self) ==
    LET cand == (IF self.local_ok THEN <<m_local>> ELSE <<>>)
                    \o [i \in 1..Len(self.config) |-> self.config[i].name]
        kept == SelectSeq([i \in 1..Len(cand) |-> i],
                          LAMBDA i : /\ cand[i] \in DOMAIN self.executors
                                     /\ \A j \in 1..(i - 1) : cand[j] # cand[i])
    IN  [k \in 1..Len(kept) |-> cand[kept[k]]]

\* test_all_connections() before it is called, and shutdown() likewise; it:
\* the dict iterator of line 150 (the size of the dict when it was made, the
\* entries it has yielded); cur: the executor whose probe is awaited;
\* todo: the rest of list(self.executors.items()) of line 164
NoRace ==
    [running |-> "race",
     test |-> [pc |-> "idle", used |-> 0, pos |-> 0, cur |-> NoExecutor,
               name |-> <<>>, results |-> <<>>, error |-> "none"],
     todo |-> <<>>, closing |-> FALSE]

\* next(it) on the dict iterator: RuntimeError when the size of the dict is
\* not the one the iterator was made with, else the next entry or the end
next_item(self, test) ==
    IF Cardinality(DOMAIN self.executors) # test.used
    THEN [test EXCEPT !.pc = "raised", !.cur = NoExecutor,
                      !.error = "RuntimeError"]
    ELSE IF test.pos >= Len(keys(self))
    THEN [test EXCEPT !.pc = "returned", !.cur = NoExecutor]
    ELSE [test EXCEPT !.pc = "probing", !.pos = test.pos + 1,
                      !.name = keys(self)[test.pos + 1],
                      !.cur = self.executors[keys(self)[test.pos + 1]]]

InitRace ==
    /\ mgr \in {ConnectionManager(config) : config \in PoolConfigs}
    /\ loop = NoRace
    /\ fs = FsPlain
    /\ ex = NoExecutor
    /\ last = NoCall
    /\ ghost = NoHistory
    /\ pathIn = NoPathIn
    /\ pathOut = NoPathOut
    /\ cmdIn = NoCmdIn
    /\ cmdOut = NoCmdOut

\* test_all_connections() is called: lines 148-150, up to the first await
TestBegin ==
    /\ Idle
    /\ loop.test.pc = "idle"
    /\ loop' = [loop EXCEPT
                   !.test = next_item(mgr,
                       [loop.test EXCEPT
                           !.used = Cardinality(DOMAIN mgr.executors)])]
    /\ UNCHANGED <<mgr, fs, polVars, execVars>>

\* the probe that was awaited is over (lines 152-156) and the loop asks the
\* iterator for the next entry; the executor probed is the object as it is
\* now: disconnected if shutdown() has disconnected it
TestProbed ==
    /\ loop.test.pc = "probing"
    /\ \E answer \in ProbeAnswers :
          LET executor == IF loop.test.cur.id \in mgr.closed
                          THEN disconnect(loop.test.cur, FALSE)
                          ELSE loop.test.cur
              probe == probed(executor, fs, answer)
              results == put(loop.test.results, loop.test.name,
                             IF probe.raised THEN FALSE ELSE probe.ok)
          IN  loop' = [loop EXCEPT
                          !.test = next_item(mgr,
                              [loop.test EXCEPT !.results = results])]
    /\ UNCHANGED <<mgr, fs, polVars, execVars>>

\* shutdown() is called: line 164 copies the items of the pool
ShutdownBegin ==
    /\ mgr.pc = "initialized"
    /\ mgr.runs < MaxRuns
    /\ ~loop.closing
    /\ loop' = [loop EXCEPT !.closing = TRUE, !.todo = keys(mgr)]
    /\ UNCHANGED <<mgr, fs, polVars, execVars>>

\* await executor.disconnect() for the next item of the copy, lines 165-169
ShutdownDisconnect ==
    /\ loop.closing
    /\ loop.todo # <<>>
    /\ mgr' = [mgr EXCEPT
                  !.executors[Head(loop.todo)] = disconnect(@, FALSE),
                  !.closed = @ \cup {mgr.executors[Head(loop.todo)].id},
                  !.live = @ \ {mgr.executors[Head(loop.todo)].id}]
    /\ loop' = [loop EXCEPT !.todo = Tail(@)]
    /\ UNCHANGED <<fs, polVars, execVars>>

\* self.executors.clear(); self._initialized = False, lines 171-172
ShutdownEnd ==
    /\ loop.closing
    /\ loop.todo = <<>>
    /\ mgr' = [mgr EXCEPT !.executors = <<>>, !.initialized = FALSE,
                          !.pc = "created",
                          !.asked = Asked("shutdown", <<>>, <<>>, FALSE)]
    /\ loop' = [loop EXCEPT !.closing = FALSE]
    /\ UNCHANGED <<fs, polVars, execVars>>

\* initialize() step by step, on the manager that is not being shut down
RaceInitialize ==
    /\ ~loop.closing
    /\ Initialize
    /\ UNCHANGED loop

\* get_executor(name) by another caller, at any await of the coroutines
RaceGetExecutor ==
    /\ Idle
    /\ \E machine_name \in {None, m_local, m_db} :
          Answered("get_executor", machine_name, get_executor(mgr, machine_name))
    /\ UNCHANGED <<fs, polVars, execVars, loop>>

NextRace ==
    \/ TestBegin
    \/ TestProbed
    \/ ShutdownBegin
    \/ ShutdownDisconnect
    \/ ShutdownEnd
    \/ RaceInitialize
    \/ RaceGetExecutor

SpecRace == InitRace /\ [][NextRace]_vars

\* C34 as stated: a test_all_connections() that was suspended on a probe
\* while shutdown() or initialize() ran still returns its mapping, it does
\* not fail because the pool changed under its iteration; and the executor
\* that get_executor returns is not one that shutdown() has disconnected.
C34_ReadsTolerateMutation ==
    /\ loop.test.pc # "raised"
    /\ (mgr.asked.op = "get_executor" /\ ~mgr.asked.raised) =>
          mgr.asked.ret.connected


\* C35 as stated: when an initialize() in which the local executor connected
\* has completed, after any initialize()/shutdown() before it, the
\* default_machine is a name of the pool, so that get_executor() without a
\* name succeeds.
C35_DefaultIsPooled ==
    (mgr.pc = "initialized" /\ mgr.local_ok) =>
        mgr.default_machine \in DOMAIN mgr.executors


\* C37: from the completion of initialize() to the next shutdown() every
\* executor of the pool is connected: the probes of test_all_connections,
\* their timeouts and their failures, and the reads of the manager leave
\* the connected flag of the pooled executors as it was.
C37_PooledStayConnected ==
    mgr.pc = "initialized" =>
        \A nm \in DOMAIN mgr.executors : mgr.executors[nm].connected

\* C37 happens: test_all_connections() has reported a failed probe for 'db',
\* which is still in the pool and connected
C37_Witness ==
    /\ mgr.pc = "initialized"
    /\ mgr.asked.op = "test_all_connections"
    /\ m_db \in DOMAIN mgr.executors
    /\ ~mgr.asked.ret[m_db]
    /\ mgr.executors[m_db].connected

=============================================================================
